---- MODULE Spec2Model ----
(***************************************************************************)
(* TaskHawk: the action execution engine (BrowserController,               *)
(* ActionExecutor), the execution trace it records into (ExecutionLogger), *)
(* the storage of tasks and traces (PersistentLogger) and the client of    *)
(* the blob store (WalrusClient).                                          *)
(*                                                                         *)
(* JavaScript strings are modelled as sequences of one-character strings,  *)
(* so that toLowerCase, startsWith and includes are computed.              *)
(***************************************************************************)
EXTENDS Integers, Sequences, FiniteSets, Bags, TLC

VARIABLES
    \* ---- findElement called on its own (SpecResolve) ----
    fPc,          \* "call" before findElement runs, "done" after, "idle" elsewhere
    fSelector,    \* the selector argument
    fSnapshot,    \* snapshot.elements, in insertion order: <<[key, elem], ...>>
    fResult,      \* the value findElement returned
    \* ---- construction options ----
    steps,        \* the step list handed to executeSteps
    maxRetries,   \* BrowserController.maxRetries
    hasLogger,    \* ActionExecutor.logger is set
    \* ---- executeSteps ----
    pc,           \* position of the one running task
    idx,          \* 1-based position of the for-of loop in steps (0 before it)
    results,      \* executeSteps' results array
    failed,       \* executeSteps' failed flag
    summary,      \* the value executeSteps returned
    err,          \* the error being thrown
    \* ---- BrowserController ----
    isStarted,
    currentTab,
    \* ---- the browser() bridge of browser-tool.js ----
    browserTool,  \* a function was injected with initBrowserTool
    globalTool,   \* globalThis._openclawBrowserTool is set
    bStage,       \* where the browser() call that is out has got to: "tool",
                  \* "global" or "mock"
    \* ---- ActionExecutor ----
    execContext,  \* ActionExecutor.context: the value of each of its keys
    extracted,    \* the object extractData returns, NoExtract outside it
    \* ---- the retry loop of BrowserController.click / type ----
    ctx,          \* which caller runs the loop
    loopKind,     \* "click" or "type"
    loopSelector, \* the selector argument
    attempt,      \* the loop counter
    lastError,    \* the loop's lastError
    snapshot,     \* the snapshot of the current attempt
    actRef,       \* the ref sent in the act request of the current attempt
    waits,        \* durations of the waits this loop, or the wait step, has
                  \* issued, in order
    snapAttempt,  \* the attempt in which snapshot was taken
    \* ---- browser.fillForm ----
    fieldIdx,     \* position in Object.entries(fields)
    formErrors,   \* number of entries of fillForm's errors array
    \* ---- per executeStep invocation ----
    attempts,     \* snapshot-resolve-act attempts started in this invocation
    logCalls,     \* logger.logStep calls made in this invocation
    \* ---- ExecutionLogger ----
    traceSteps,   \* trace.steps
    state,        \* logger.state
    traceError,   \* trace.error
    endTime,      \* trace.endTime: the time it was stamped, NoTime for null
    sessionId,    \* logger.sessionId
    traceSessionId, \* trace.sessionId
    goal,         \* trace.goal
    startTime,    \* trace.startTime
    finalResult,  \* trace.finalResult
    now,          \* the clock new Date() reads
    lastOp,       \* the last call made on the logger and how it ended
    \* ---- PersistentLogger ----
    autoStore,
    gracefulDegradation,
    storage,      \* logger.storage
    inflight,     \* the bag of store calls that await the Walrus client
    done,         \* the number of store calls that ended
    \* ---- WalrusClient ----
    wMaxRetries,  \* WalrusClient.maxRetries
    wRetryDelay,  \* WalrusClient.retryDelay
    wPc,          \* "idle", "fetch" while a request is out, "sleep", "done"
    wCall,        \* the method called on the client, with its argument
    wAttempt,     \* the attempt variable of fetchWithRetry
    wLastError,   \* the lastError variable of fetchWithRetry
    wWaits,       \* the delays slept in this call, in order
    wRequests,    \* the requests sent to the network in this call
    wFetch,       \* how fetchWithRetry ended in this call
    wResult,      \* how the method ended
    blobs         \* the texts the blob store holds

resolveVars == <<fPc, fSelector, fSnapshot, fResult>>
cfgVars == <<steps, maxRetries, hasLogger>>
seqVars == <<idx, results, failed, summary>>
brVars == <<isStarted, currentTab>>
ctxVars == <<execContext, extracted>>
bridgeVars == <<browserTool, globalTool, bStage>>
loopVars == <<ctx, loopKind, loopSelector, attempt, lastError, snapshot, actRef,
              waits, snapAttempt>>
formVars == <<fieldIdx, formErrors>>
stepVars == <<attempts, logCalls>>
traceVars == <<traceSteps, state, traceError, endTime>>
logVars == <<sessionId, traceSessionId, goal, startTime, finalResult, now,
             lastOp>>
storeVars == <<autoStore, gracefulDegradation, storage, inflight, done>>
recVars == <<logVars, storeVars>>
runVars == <<cfgVars, ctxVars, bridgeVars, pc, seqVars, err, brVars, loopVars,
             formVars, stepVars>>
execVars == <<runVars, traceVars, recVars>>
walrusVars == <<wMaxRetries, wRetryDelay, wPc, wCall, wAttempt, wLastError,
                wWaits, wRequests, wFetch, wResult, blobs>>
vars == <<resolveVars, walrusVars, execVars>>

-----------------------------------------------------------------------------
(* Strings *)

ToLowerChar(c) ==
    CASE c = "A" -> "a"
      [] c = "B" -> "b"
      [] c = "S" -> "s"
      [] OTHER -> c

\* String.prototype.toLowerCase
ToLowerCase(s) == [i \in 1..Len(s) |-> ToLowerChar(s[i])]

\* String.prototype.startsWith
StartsWith(s, p) ==
    /\ Len(p) <= Len(s)
    /\ SubSeq(s, 1, Len(p)) = p

\* String.prototype.includes
Includes(s, p) ==
    \E i \in 0..(Len(s) - Len(p)) : SubSeq(s, i + 1, i + Len(p)) = p

AriaPrefix == <<"a", "r", "i", "a", "-">>

IsDigit(c) == c \in {"0", "1", "2", "3", "4", "5", "6", "7", "8", "9"}

DigitVal(c) ==
    CASE c = "0" -> 0 [] c = "1" -> 1 [] c = "2" -> 2 [] c = "3" -> 3
      [] c = "4" -> 4 [] c = "5" -> 5 [] c = "6" -> 6 [] c = "7" -> 7
      [] c = "8" -> 8 [] c = "9" -> 9

RECURSIVE NumVal(_)
NumVal(s) ==
    IF s = <<>> THEN 0
    ELSE 10 * NumVal(SubSeq(s, 1, Len(s) - 1)) + DigitVal(s[Len(s)])

\* An "array index" property key: a canonical decimal string below 2^32 - 1.
\* Object.entries lists these first, in ascending numeric order.
IsArrayIndex(k) ==
    /\ Len(k) >= 1
    /\ Len(k) <= 9
    /\ \A i \in 1..Len(k) : IsDigit(k[i])
    /\ (k[1] = "0" => Len(k) = 1)

-----------------------------------------------------------------------------
(* Snapshot elements: a JavaScript object, kept as the sequence of its own   *)
(* properties in insertion order. An element descriptor is a record holding *)
(* only the fields that are present.                                        *)

OwnKeys(elements) == {elements[i].key : i \in 1..Len(elements)}

\* Names every plain object inherits from Object.prototype; reading them
\* yields a truthy value (a function, or the prototype itself).
ObjectPrototypeProps ==
    { <<"v", "a", "l", "u", "e", "O", "f">>,
      <<"t", "o", "S", "t", "r", "i", "n", "g">>,
      <<"c", "o", "n", "s", "t", "r", "u", "c", "t", "o", "r">> }

\* snapshot.elements?.[selector], taken as a condition
PropertyTruthy(elements, selector) ==
    \/ selector \in OwnKeys(elements)
    \/ selector \in ObjectPrototypeProps

RECURSIVE SortByIndex(_, _)
\* the positions in idxs, ordered by ascending numeric key
SortByIndex(elements, idxs) ==
    IF idxs = {} THEN <<>>
    ELSE LET m == CHOOSE i \in idxs :
                    \A j \in idxs : NumVal(elements[i].key) <= NumVal(elements[j].key)
         IN  <<m>> \o SortByIndex(elements, idxs \ {m})

\* the positions that are not in idxs, in insertion order
RECURSIVE InsertionOrder(_, _, _)
InsertionOrder(elements, idxs, from) ==
    IF from > Len(elements) THEN <<>>
    ELSE (IF from \in idxs THEN <<>> ELSE <<from>>)
             \o InsertionOrder(elements, idxs, from + 1)

\* Object.entries(elements): array-index keys ascending, then the other keys
\* in insertion order
ObjectEntries(elements) ==
    LET idxs  == {i \in 1..Len(elements) : IsArrayIndex(elements[i].key)}
        order == SortByIndex(elements, idxs) \o InsertionOrder(elements, idxs, 1)
    IN  [n \in 1..Len(order) |-> elements[order[n]]]

-----------------------------------------------------------------------------
(* BrowserController.findElement *)

NotFound == [found |-> FALSE]
Ref(k) == [found |-> TRUE, ref |-> k]

\* elem.<field>?.toLowerCase().includes(selector.toLowerCase())
FieldIncludes(elem, field, selector) ==
    /\ field \in DOMAIN elem
    /\ Includes(ToLowerCase(elem[field]), ToLowerCase(selector))

NameMatch(elem, selector) ==
    \/ FieldIncludes(elem, "name", selector)
    \/ FieldIncludes(elem, "label", selector)
    \/ FieldIncludes(elem, "value", selector)

TextMatch(elem, selector) == FieldIncludes(elem, "text", selector)

\* the positions a for-of loop over entries would return at
NameHits(entries, selector) ==
    {i \in 1..Len(entries) : NameMatch(entries[i].elem, selector)}

TextHits(entries, selector) ==
    {i \in 1..Len(entries) : TextMatch(entries[i].elem, selector)}

\* the first of them, which is where the loop returns
FirstMatch(entries, hits) ==
    IF hits = {} THEN NotFound
    ELSE Ref(entries[CHOOSE i \in hits : \A j \in hits : i <= j].key)

\* findElement without the own-key test of strategy 1
findElement_NoKeyTest(selector, elements) ==
    IF StartsWith(selector, AriaPrefix)
    THEN Ref(selector)
    ELSE LET entries == ObjectEntries(elements)
             byName  == FirstMatch(entries, NameHits(entries, selector))
         IN  IF byName.found THEN byName
             ELSE FirstMatch(entries, TextHits(entries, selector))

\* findElement that falls back on the first element when nothing matches
findElement_FirstAsFallback(selector, elements) ==
    IF StartsWith(selector, AriaPrefix) \/ PropertyTruthy(elements, selector)
    THEN Ref(selector)
    ELSE LET entries == ObjectEntries(elements)
             byName  == FirstMatch(entries, NameHits(entries, selector))
             byText  == FirstMatch(entries, TextHits(entries, selector))
         IN  IF byName.found THEN byName
             ELSE IF byText.found THEN byText
             ELSE IF Len(entries) > 0 THEN Ref(entries[1].key)
             ELSE NotFound

\* findElement with strategies 2 and 3 in the other order
findElement_TextFirst(selector, elements) ==
    IF StartsWith(selector, AriaPrefix) \/ PropertyTruthy(elements, selector)
    THEN Ref(selector)
    ELSE LET entries == ObjectEntries(elements)
             byText  == FirstMatch(entries, TextHits(entries, selector))
         IN  IF byText.found THEN byText
             ELSE FirstMatch(entries, NameHits(entries, selector))

findElement(selector, elements) ==
    IF StartsWith(selector, AriaPrefix) \/ PropertyTruthy(elements, selector)
    THEN Ref(selector)
    ELSE LET entries == ObjectEntries(elements)
             byName  == FirstMatch(entries, NameHits(entries, selector))
         IN  IF byName.found THEN byName
             ELSE FirstMatch(entries, TextHits(entries, selector))

-----------------------------------------------------------------------------
(* Inputs of findElement *)

\* most own properties a snapshot's elements object holds
MaxElements == 2

S_ab == <<"a", "b">>
S_Ab == <<"A", "b">>
S_aB == <<"a", "B">>
S_b == <<"b">>
S_B == <<"B">>
S_e == <<"e">>
S_1 == <<"1">>
S_2 == <<"2">>
S_aria_b == AriaPrefix \o <<"b">>
S_aria_e == AriaPrefix \o <<"e">>
S_toString == <<"t", "o", "S", "t", "r", "i", "n", "g">>

KeyPool == {S_2, S_1, S_e, S_ab, S_aria_b}

DescriptorPool ==
    { [role |-> S_b, name |-> S_Ab],
      [role |-> S_b, text |-> S_aB],
      [role |-> S_b, label |-> S_ab],
      [role |-> S_b, value |-> S_B],
      [role |-> S_ab],
      [role |-> S_b, name |-> S_e, text |-> S_ab] }

SelectorPool == {S_ab, S_B, S_e, S_2, S_aria_b, S_aria_e, S_toString, <<>>}

ElementPool == {[key |-> k, elem |-> d] : k \in KeyPool, d \in DescriptorPool}

\* an object has each key once
DistinctKeys(elements) ==
    \A i, j \in 1..Len(elements) : elements[i].key = elements[j].key => i = j

SnapshotsOfSize(n) == {s \in [1..n -> ElementPool] : DistinctKeys(s)}

Snapshots == UNION {SnapshotsOfSize(n) : n \in 0..MaxElements}

-----------------------------------------------------------------------------
(* The executor at rest, for the specifications that do not run it *)

NoError == [kind |-> "none", attempts |-> 0, last |-> "none"]
NoSummary == [returned |-> FALSE]

\* {}
EmptyObject == [f \in {} |-> <<>>]

\* no extractData call has returned in this step
NoExtract == [returned |-> FALSE]

ExecIdle ==
    /\ steps = <<>>
    /\ maxRetries = 3
    /\ hasLogger = FALSE
    /\ pc = "idle"
    /\ idx = 0
    /\ results = <<>>
    /\ failed = FALSE
    /\ summary = NoSummary
    /\ err = NoError
    /\ isStarted = FALSE
    /\ currentTab = "null"
    /\ execContext = EmptyObject
    /\ extracted = NoExtract
    /\ browserTool = FALSE
    /\ globalTool = FALSE
    /\ bStage = "tool"
    /\ ctx = "none"
    /\ loopKind = "none"
    /\ loopSelector = <<>>
    /\ attempt = 0
    /\ lastError = NoError
    /\ snapshot = <<>>
    /\ actRef = NotFound
    /\ waits = <<>>
    /\ snapAttempt = 0
    /\ fieldIdx = 0
    /\ formErrors = 0
    /\ attempts = 0
    /\ logCalls = 0

\* null, for the properties that hold strings or objects
Null == "null"

\* null, for the properties that hold a timestamp
NoTime == 0

\* the storage record of a PersistentLogger after construction and after reset
EmptyStorage ==
    [taskId |-> Null, taskBlobId |-> Null, traceBlobId |-> Null,
     storedAt |-> NoTime, errors |-> <<>>]

\* new ExecutionLogger(options), with the session id that options.sessionId ||
\* this.generateSessionId() gave, at time t
LoggerConstructed(id, t) ==
    /\ sessionId = id
    /\ traceSessionId = id
    /\ state = "planning"
    /\ goal = Null
    /\ startTime = t
    /\ endTime = NoTime
    /\ traceSteps = <<>>
    /\ finalResult = Null
    /\ traceError = NoError
    /\ now = t
    /\ lastOp = [op |-> "none", threw |-> FALSE]

\* new PersistentLogger(options): the part the subclass adds
StorageConstructed(as, gd) ==
    /\ autoStore = as
    /\ gracefulDegradation = gd
    /\ storage = EmptyStorage
    /\ inflight = EmptyBag
    /\ done = 0

\* options.maxRetries || 3, options.retryDelay || 1000 and
\* options.timeout || 30000 with nothing given
DefaultWalrusRetries == 3
DefaultRetryDelay == 1000
DefaultTimeout == 30000

NoCall == [op |-> "none"]
NoOutcome == [ended |-> FALSE]
\* let lastError = null
NoLastError == [name |-> "none"]

\* no call made on the client yet, or a new call about to start
WalrusAtRest ==
    /\ wAttempt = 0
    /\ wLastError = NoLastError
    /\ wWaits = <<>>
    /\ wRequests = 0
    /\ wFetch = NoOutcome
    /\ wResult = NoOutcome

\* new WalrusClient(options) with the given maxRetries and retryDelay, and
\* the blob store holding the given texts
WalrusConstructed(retries, delay, held) ==
    /\ wMaxRetries = retries
    /\ wRetryDelay = delay
    /\ wPc = "idle"
    /\ wCall = NoCall
    /\ WalrusAtRest
    /\ blobs = held

\* the client, for the specifications in which nothing calls it
WalrusIdle == WalrusConstructed(DefaultWalrusRetries, DefaultRetryDelay, {})

\* the logger, for the specifications in which no caller but the executor
\* uses it
LoggerIdle ==
    /\ LoggerConstructed("exec_1", 1)
    /\ StorageConstructed(FALSE, TRUE)

-----------------------------------------------------------------------------
(* findElement applied to every selector and snapshot of the pools *)

InitResolve ==
    /\ fPc = "call"
    /\ fSelector \in SelectorPool
    /\ fSnapshot \in Snapshots
    /\ fResult = NotFound
    /\ ExecIdle
    /\ LoggerIdle
    /\ WalrusIdle

FindElementCall ==
    /\ fPc = "call"
    /\ fResult' = findElement(fSelector, fSnapshot)
    /\ fPc' = "done"
    /\ UNCHANGED <<fSelector, fSnapshot, walrusVars, execVars>>

NextResolve == FindElementCall

SpecResolve == InitResolve /\ [][NextResolve]_vars

-----------------------------------------------------------------------------
(* Claims about findElement (SpecResolve) *)

\* some element other than the one keyed by the selector has a name that
\* contains the selector
OtherNameContains(elements, selector) ==
    \E i \in 1..Len(elements) :
        /\ elements[i].key # selector
        /\ "name" \in DOMAIN elements[i].elem
        /\ Includes(ToLowerCase(elements[i].elem.name), ToLowerCase(selector))

\* C9: when the snapshot holds an element whose key equals the target and
\* another element whose name contains the target, findElement returns the
\* element with that key.
C9_ExactKeyPrecedence ==
    (/\ fPc = "done"
     /\ fSelector \in OwnKeys(fSnapshot)
     /\ OtherNameContains(fSnapshot, fSelector))
        => fResult = Ref(fSelector)

\* the other element comes first in the snapshot, and the key is still returned
C9_Witness ==
    /\ fPc = "done"
    /\ Len(fSnapshot) = 2
    /\ fSnapshot[2].key = fSelector
    /\ "name" \in DOMAIN fSnapshot[1].elem
    /\ Includes(ToLowerCase(fSnapshot[1].elem.name), ToLowerCase(fSelector))
    /\ fResult = Ref(fSelector)

\* r is what the heuristic strategies give on the elements taken in `order`:
\* the first with a name, label or value match, else the first with a text match
HeuristicChoice(order, selector, r) ==
    LET byName == {i \in 1..Len(order) : NameMatch(order[i].elem, selector)}
        byText == {i \in 1..Len(order) : TextMatch(order[i].elem, selector)}
    IN  /\ \A i \in byName :
              (\A j \in byName : i <= j) => r = Ref(order[i].key)
        /\ byName = {} =>
              \A i \in byText :
                  (\A j \in byText : i <= j) => r = Ref(order[i].key)

\* C10 as stated: whenever the target is not a key of the snapshot, the result
\* is the heuristic choice over the elements in insertion order.
C10_InsertionOrderPrecedence ==
    (fPc = "done" /\ fSelector \notin OwnKeys(fSnapshot))
        => HeuristicChoice(fSnapshot, fSelector, fResult)

\* C10 amended: when the target is not a key of the snapshot, does not start
\* with "aria-" and names no property inherited from Object.prototype, the
\* result is the heuristic choice over the elements in Object.entries order
\* (array-index keys ascending, then the other keys in insertion order).
C10_EntriesOrderPrecedence ==
    (/\ fPc = "done"
     /\ fSelector \notin OwnKeys(fSnapshot)
     /\ ~StartsWith(fSelector, AriaPrefix)
     /\ fSelector \notin ObjectPrototypeProps)
        => HeuristicChoice(ObjectEntries(fSnapshot), fSelector, fResult)

\* a text match on the first element loses to a name match on the second
C10_Witness ==
    /\ fPc = "done"
    /\ Len(fSnapshot) = 2
    /\ fSelector \notin OwnKeys(fSnapshot)
    /\ ~StartsWith(fSelector, AriaPrefix)
    /\ fSelector \notin ObjectPrototypeProps
    /\ ~IsArrayIndex(fSnapshot[1].key)
    /\ ~IsArrayIndex(fSnapshot[2].key)
    /\ TextMatch(fSnapshot[1].elem, fSelector)
    /\ ~NameMatch(fSnapshot[1].elem, fSelector)
    /\ NameMatch(fSnapshot[2].elem, fSelector)
    /\ fResult = Ref(fSnapshot[2].key)


\* the selector is contained, whatever the case, in the name, label, value or
\* text of some element
ContainedInSomeField(elements, selector) ==
    \E i \in 1..Len(elements) :
        \E field \in {"name", "label", "value", "text"} :
            /\ field \in DOMAIN elements[i].elem
            /\ Includes(ToLowerCase(elements[i].elem[field]),
                        ToLowerCase(selector))

\* the selectors strategy 1 answers without looking for an element
AnsweredUnseen(selector) ==
    StartsWith(selector, AriaPrefix) \/ selector \in ObjectPrototypeProps

(* C11 as stated: findElement returns not-found for every target that is     *)
(* neither a key of the snapshot nor contained in the name, label, value or  *)
(* text of an element; every reference it returns is a key of the snapshot.  *)
C11_OnlyKeysReturned ==
    fPc = "done" =>
        /\ (/\ fSelector \notin OwnKeys(fSnapshot)
            /\ ~ContainedInSomeField(fSnapshot, fSelector)) => ~fResult.found
        /\ fResult.found => fResult.ref \in OwnKeys(fSnapshot)

(* C11: for a target that does not start with 'aria-' and is not the name    *)
(* of a property inherited from Object.prototype, findElement returns        *)
(* not-found when the target is neither a key of the snapshot nor contained  *)
(* in the name, label, value or text of an element, and every reference it   *)
(* returns is a key of the snapshot; for the other targets it returns the    *)
(* target itself, key or not.                                                *)
C11_OnlyKeysReturnedUnlessUnseen ==
    fPc = "done" =>
        IF AnsweredUnseen(fSelector)
        THEN fResult = Ref(fSelector)
        ELSE /\ (/\ fSelector \notin OwnKeys(fSnapshot)
                 /\ ~ContainedInSomeField(fSnapshot, fSelector))
                    => ~fResult.found
             /\ fResult.found => fResult.ref \in OwnKeys(fSnapshot)

\* a snapshot with elements, none of which the target names or is contained in
C11_Witness ==
    /\ fPc = "done"
    /\ Len(fSnapshot) = MaxElements
    /\ ~AnsweredUnseen(fSelector)
    /\ fSelector \notin OwnKeys(fSnapshot)
    /\ ~ContainedInSomeField(fSnapshot, fSelector)
    /\ ~fResult.found

-----------------------------------------------------------------------------
(* ActionExecutor and BrowserController: inputs *)

\* most steps in the list handed to executeSteps
MaxSteps == 2

\* maxRetries when the option is absent (or 0): options.maxRetries || 3
DefaultMaxRetries == 3

\* the maxRetries option as passed to the constructor; 0 stands for "absent"
RetryOptions == {0, 1, 4}

RetriesFromOption(o) == IF o = 0 THEN DefaultMaxRetries ELSE o

\* the retry loops wait BackoffBase * attempt between attempts
BackoffBase == 500

S_url == <<"u">>

Kinds == {"navigate", "click", "type", "fill_form", "wait", "extract",
          "snapshot", "submit", "select"}

\* A step is a record of the properties it has; a property that is absent is
\* undefined in the code.
StepPool ==
    { [type |-> "wait", params |-> [duration |-> 50]],
      [type |-> "wait"],
      [type |-> "wait", params |-> EmptyObject],
      [type |-> "invalid_type"],
      [type |-> "invalid_type", continueOnError |-> TRUE],
      [continueOnError |-> TRUE],
      [type |-> "navigate", params |-> [url |-> S_url]],
      [type |-> "navigate", params |-> EmptyObject, continueOnError |-> TRUE],
      [type |-> "click", params |-> [selector |-> S_ab]],
      [type |-> "type", params |-> [selector |-> S_ab, text |-> S_b]],
      [type |-> "select", params |-> [selector |-> S_ab, value |-> S_b]],
      [type |-> "submit", params |-> [selector |-> S_aria_b]],
      [type |-> "fill_form",
       params |-> [fields |-> <<[selector |-> S_ab, value |-> S_b]>>]],
      [type |-> "extract", params |-> [selector |-> S_ab]],
      [type |-> "snapshot"] }

StepLists == UNION {[1..n -> StepPool] : n \in 0..MaxSteps}

\* the elements objects a snapshot call may return
SnapPool ==
    { <<>>,
      <<[key |-> S_e, elem |-> [role |-> S_b, name |-> S_Ab]]>> }

\* result.targetId || result.tabId of a navigate response
TargetIds == {"t1"}

-----------------------------------------------------------------------------
(* Errors: the message, with the attempt count and the inner message where   *)
(* the message embeds them                                                  *)

Err(k) == [kind |-> k, attempts |-> 0, last |-> "none"]

\* `${Kind} failed after ${this.maxRetries} attempts: ${lastError.message}`
FailedAfter(kind, n, e) ==
    [kind |-> IF kind = "click" THEN "click_failed_after" ELSE "type_failed_after",
     attempts |-> n,
     last |-> e.kind]

-----------------------------------------------------------------------------
(* Steps *)

HasTruthyType(step) == "type" \in DOMAIN step /\ step.type # ""

HasParams(step) == "params" \in DOMAIN step

\* !params.<field> is false
Truthy(params, field) == field \in DOMAIN params /\ params[field] # <<>>

\* step.continueOnError, as a condition
ContinueOnError(step) ==
    "continueOnError" \in DOMAIN step /\ step.continueOnError

CurrentStep == steps[idx]

-----------------------------------------------------------------------------
(* ActionExecutor.executeSteps *)

InitOf(lists) ==
    /\ fPc = "idle"
    /\ fSelector = <<>>
    /\ fSnapshot = <<>>
    /\ fResult = NotFound
    /\ steps \in lists
    /\ maxRetries \in {RetriesFromOption(o) : o \in RetryOptions}
    /\ hasLogger \in BOOLEAN
    /\ pc = "loop"
    /\ idx = 0
    /\ results = <<>>
    /\ failed = FALSE
    /\ summary = NoSummary
    /\ err = NoError
    /\ isStarted \in BOOLEAN
    /\ currentTab = "null"
    /\ execContext = EmptyObject
    /\ extracted = NoExtract
    /\ browserTool = FALSE
    /\ globalTool = FALSE
    /\ bStage = "tool"
    /\ ctx = "none"
    /\ loopKind = "none"
    /\ loopSelector = <<>>
    /\ attempt = 0
    /\ lastError = NoError
    /\ snapshot = <<>>
    /\ actRef = NotFound
    /\ waits = <<>>
    /\ snapAttempt = 0
    /\ fieldIdx = 0
    /\ formErrors = 0
    /\ attempts = 0
    /\ logCalls = 0
    /\ LoggerIdle
    /\ WalrusIdle

\* executeSteps(steps) has been called on a new executor
Init == InitOf(StepLists)

\* for (const step of steps): the next step is handed to executeStep
NextStep ==
    /\ pc = "loop"
    /\ idx < Len(steps)
    /\ idx' = idx + 1
    /\ pc' = "executeStep"
    /\ attempts' = 0
    /\ logCalls' = 0
    /\ UNCHANGED <<resolveVars, walrusVars, bridgeVars, recVars, cfgVars, ctxVars, results, failed, summary, err, brVars,
                   loopVars, formVars, traceVars>>

CountSuccess(rs, b) == Cardinality({i \in 1..Len(rs) : rs[i].success = b})

\* ReturnSummary with totalSteps counted from the results that were pushed
ReturnSummary_CountsResults ==
    /\ \/ pc = "loop" /\ idx = Len(steps)
       \/ pc = "break"
    /\ summary' = [returned   |-> TRUE,
                   totalSteps |-> Len(results),
                   successful |-> CountSuccess(results, TRUE),
                   failed     |-> CountSuccess(results, FALSE),
                   completed  |-> ~failed,
                   results    |-> results]
    /\ pc' = "returned"
    /\ UNCHANGED <<resolveVars, walrusVars, bridgeVars, recVars, cfgVars, ctxVars, idx, results, failed, err, brVars,
                   loopVars, formVars, stepVars, traceVars>>

\* the loop ended (exhausted, or left by break): executeSteps returns
ReturnSummary ==
    /\ \/ pc = "loop" /\ idx = Len(steps)
       \/ pc = "break"
    /\ summary' = [returned   |-> TRUE,
                   totalSteps |-> Len(steps),
                   successful |-> CountSuccess(results, TRUE),
                   failed     |-> CountSuccess(results, FALSE),
                   completed  |-> ~failed,
                   results    |-> results]
    /\ pc' = "returned"
    /\ UNCHANGED <<resolveVars, walrusVars, bridgeVars, recVars, cfgVars, ctxVars, idx, results, failed, err, brVars,
                   loopVars, formVars, stepVars, traceVars>>

-----------------------------------------------------------------------------
(* ExecutionLogger.logStep and logError *)

\* step.name || step.id || `step_${this.trace.steps.length}`
StepName(step, n) ==
    IF Truthy(step, "name") THEN step.name
    ELSE IF Truthy(step, "id") THEN step.id
    ELSE <<"step_", n>>

\* logStep with the entries numbered from one
logStep_OneBased(trace, step, status) ==
    Append(trace, [stepIndex |-> Len(trace) + 1,
                   stepName  |-> StepName(step, Len(trace)),
                   stepType  |-> IF HasTruthyType(step) THEN step.type ELSE "unknown",
                   status    |-> status])

\* trace.steps after logStep(step, result, status, output)
logStep(trace, step, status) ==
    Append(trace, [stepIndex |-> Len(trace),
                   stepName  |-> StepName(step, Len(trace)),
                   stepType  |-> IF HasTruthyType(step) THEN step.type ELSE "unknown",
                   status    |-> status])

\* Object.values(ExecutionState)
ExecutionStates == {"planning", "executing", "completed", "failed"}

\* the states whose entry stamps trace.endTime
Terminal == {"completed", "failed"}

\* setState that stamps endTime only while it is null
setState_StampOnce(newState) ==
    /\ state' = newState
    /\ endTime' = IF newState \in Terminal /\ endTime = NoTime THEN now ELSE endTime

\* setState that stamps endTime on completion only
setState_NoStampOnFailure(newState) ==
    /\ state' = newState
    /\ endTime' = IF newState = "completed" THEN now ELSE endTime

\* setState(newState) past its test of newState
setState(newState) ==
    /\ state' = newState
    /\ endTime' = IF newState \in Terminal THEN now ELSE endTime

\* an Error with the given message; any other value handed to logError
ErrorObject(m) == [instanceofError |-> TRUE, message |-> m]
OtherValue(v) == [instanceofError |-> FALSE, value |-> v]

\* error instanceof Error ? error.message : error
ErrorMessage(error) ==
    IF error.instanceofError THEN error.message ELSE error.value

\* logError that records the error and leaves the state as it is
logError_NoState(error, context) ==
    /\ traceError' = [message   |-> ErrorMessage(error),
                      context   |-> context,
                      timestamp |-> now]
    /\ UNCHANGED <<state, endTime>>

\* logError(error, context)
logError(error, context) ==
    /\ traceError' = [message   |-> ErrorMessage(error),
                      context   |-> context,
                      timestamp |-> now]
    /\ setState("failed")

-----------------------------------------------------------------------------
(* ActionExecutor.executeStep: the end of the try block and the catch block *)

StepResult(ok, e) ==
    [success |-> ok,
     status  |-> IF ok THEN "success" ELSE "error",
     error   |-> e,
     step    |-> CurrentStep]

\* results.unshift(result)
Push_Unshift(rs, r) == <<r>> \o rs

\* results.push(result)
Push(rs, r) == Append(rs, r)

\* the break test with continueOnError left out
StopsOnFailure_Always(step) == TRUE

\* !result.success && !step.continueOnError, for a result that failed
StopsOnFailure(step) == ~ContinueOnError(step)

\* executeStep returns: its locals, and those of the calls it made, are gone
LocalsGone ==
    /\ err' = NoError
    /\ ctx' = "none"
    /\ loopKind' = "none"
    /\ loopSelector' = <<>>
    /\ attempt' = 0
    /\ lastError' = NoError
    /\ snapshot' = <<>>
    /\ actRef' = NotFound
    /\ waits' = <<>>
    /\ snapAttempt' = 0
    /\ fieldIdx' = 0
    /\ formErrors' = 0
    /\ extracted' = NoExtract

\* the handler returned: log, return the result; executeSteps pushes it
StepSuccess ==
    /\ pc = "success"
    /\ IF hasLogger
       THEN /\ traceSteps' = logStep(traceSteps, CurrentStep, "success")
            /\ logCalls' = logCalls + 1
       ELSE UNCHANGED <<traceSteps, logCalls>>
    /\ results' = Push(results, StepResult(TRUE, NoError))
    /\ pc' = "loop"
    /\ LocalsGone
    /\ UNCHANGED <<resolveVars, walrusVars, bridgeVars, recVars, cfgVars, execContext, idx, failed, summary, brVars,
                   attempts, state, traceError, endTime>>

\* StepCatch with the logger left out of the catch block
StepCatch_NoLogStep ==
    /\ pc = "catch"
    /\ UNCHANGED <<traceSteps, logCalls, traceError, state, endTime>>
    /\ results' = Push(results, StepResult(FALSE, err))
    /\ IF StopsOnFailure(CurrentStep)
       THEN failed' = TRUE /\ pc' = "break"
       ELSE failed' = failed /\ pc' = "loop"
    /\ LocalsGone
    /\ UNCHANGED <<resolveVars, walrusVars, bridgeVars, recVars, cfgVars, execContext, idx, summary, brVars, attempts>>

\* StepCatch with logError called only for a step that breaks the loop
StepCatch_LogsErrorOnBreak ==
    /\ pc = "catch"
    /\ IF hasLogger
       THEN /\ traceSteps' = logStep(traceSteps, CurrentStep, "error")
            /\ logCalls' = logCalls + 1
            /\ IF StopsOnFailure(CurrentStep)
               THEN logError(ErrorObject(err), [step |-> CurrentStep])
               ELSE UNCHANGED <<traceError, state, endTime>>
       ELSE UNCHANGED <<traceSteps, logCalls, traceError, state, endTime>>
    /\ results' = Push(results, StepResult(FALSE, err))
    /\ IF StopsOnFailure(CurrentStep)
       THEN failed' = TRUE /\ pc' = "break"
       ELSE failed' = failed /\ pc' = "loop"
    /\ LocalsGone
    /\ UNCHANGED <<resolveVars, walrusVars, bridgeVars, recVars, cfgVars, execContext, idx, summary, brVars, attempts>>

\* the handler threw: log the step and the error, return the error result;
\* executeSteps pushes it and breaks unless the step has continueOnError
StepCatch ==
    /\ pc = "catch"
    /\ IF hasLogger
       THEN /\ traceSteps' = logStep(traceSteps, CurrentStep, "error")
            /\ logCalls' = logCalls + 1
            /\ logError(ErrorObject(err), [step |-> CurrentStep])
       ELSE UNCHANGED <<traceSteps, logCalls, traceError, state, endTime>>
    /\ results' = Push(results, StepResult(FALSE, err))
    /\ IF StopsOnFailure(CurrentStep)
       THEN failed' = TRUE /\ pc' = "break"
       ELSE failed' = failed /\ pc' = "loop"
    /\ LocalsGone
    /\ UNCHANGED <<resolveVars, walrusVars, bridgeVars, recVars, cfgVars, execContext, idx, summary, brVars, attempts>>

\* a throw that no catch block receives
Throw_Uncaught(e) == pc' = "thrown" /\ err' = e

\* throw inside the try block
Throw(e) == pc' = "catch" /\ err' = e

\* !step || !step.type: thrown before the try block, out of executeStep and
\* out of executeSteps
ExecInvalid ==
    /\ pc = "executeStep"
    /\ ~HasTruthyType(CurrentStep)
    /\ pc' = "thrown"
    /\ err' = Err("invalid_step_missing_type")
    /\ UNCHANGED <<resolveVars, walrusVars, bridgeVars, recVars, cfgVars, ctxVars, seqVars, brVars, loopVars, formVars,
                   stepVars, traceVars>>

\* default: of the switch
ExecUnknown ==
    /\ pc = "executeStep"
    /\ HasTruthyType(CurrentStep)
    /\ CurrentStep.type \notin Kinds
    /\ Throw(Err("unknown_action_type"))
    /\ UNCHANGED <<resolveVars, walrusVars, bridgeVars, recVars, cfgVars, ctxVars, seqVars, brVars, loopVars, formVars,
                   stepVars, traceVars>>

Dispatch(kind) ==
    /\ pc = "executeStep"
    /\ HasTruthyType(CurrentStep)
    /\ CurrentStep.type = kind

-----------------------------------------------------------------------------
(* The retry loop of BrowserController.click and BrowserController.type *)

\* click / type that asks for a snapshot whether the browser is started or not
EnterLoop_Unchecked(kind, sel, c) ==
    /\ pc' = "snapshot"
    /\ ctx' = c
    /\ loopKind' = kind
    /\ loopSelector' = sel
    /\ attempt' = 1
    /\ lastError' = NoError
    /\ waits' = <<>>
    /\ attempts' = attempts + 1
    /\ snapshot' = <<>>
    /\ actRef' = NotFound
    /\ snapAttempt' = 0
    /\ err' = err

\* click(selector) / type(selector, text) is called by caller c: the
\* not-started test, then attempt 1 asks for a snapshot
EnterLoop(kind, sel, c) ==
    IF ~isStarted
    THEN /\ Throw(Err("browser_not_started"))
         /\ UNCHANGED <<loopVars, attempts>>
    ELSE /\ pc' = "snapshot"
         /\ ctx' = c
         /\ loopKind' = kind
         /\ loopSelector' = sel
         /\ attempt' = 1
         /\ lastError' = NoError
         /\ waits' = <<>>
         /\ attempts' = attempts + 1
         /\ snapshot' = <<>>
         /\ actRef' = NotFound
         /\ snapAttempt' = 0
         /\ err' = err

\* AttemptFailed with the test attempt <= maxRetries
AttemptFailed_OffByOne(e) ==
    /\ lastError' = e
    /\ IF attempt <= maxRetries
       THEN /\ pc' = "backoff"
            /\ waits' = Append(waits, BackoffBase * attempt)
            /\ err' = err
       ELSE /\ pc' = "loop_throw"
            /\ waits' = waits
            /\ err' = FailedAfter(loopKind, maxRetries, e)

\* AttemptFailed with the wait doubling from one attempt to the next
AttemptFailed_Exponential(e) ==
    /\ lastError' = e
    /\ IF attempt < maxRetries
       THEN /\ pc' = "backoff"
            /\ waits' = Append(waits, BackoffBase * 2^(attempt - 1))
            /\ err' = err
       ELSE /\ pc' = "loop_throw"
            /\ waits' = waits
            /\ err' = FailedAfter(loopKind, maxRetries, e)

\* catch (error) inside the loop: remember it, wait before the next attempt,
\* or leave the loop after the last one and throw
AttemptFailed(e) ==
    /\ lastError' = e
    /\ IF attempt < maxRetries
       THEN /\ pc' = "backoff"
            /\ waits' = Append(waits, BackoffBase * attempt)
            /\ err' = err
       ELSE /\ pc' = "loop_throw"
            /\ waits' = waits
            /\ err' = FailedAfter(loopKind, maxRetries, e)

\* the snapshot call of this attempt answers; on ok the element is resolved
\* on it and the act request is sent with the resolved ref
SnapshotResult ==
    /\ pc = "snapshot"
    /\ \E ok \in BOOLEAN :
         IF ok
         THEN \E s \in SnapPool :
                /\ snapshot' = s
                /\ snapAttempt' = attempt
                /\ LET element == findElement(loopSelector, s)
                   IN  IF element.found
                       THEN /\ actRef' = element
                            /\ pc' = "act"
                            /\ UNCHANGED <<lastError, waits, err>>
                       ELSE /\ AttemptFailed(Err("element_not_found"))
                            /\ actRef' = actRef
         ELSE /\ AttemptFailed(Err("snapshot_error"))
              /\ UNCHANGED <<snapshot, snapAttempt, actRef>>
    /\ UNCHANGED <<resolveVars, walrusVars, bridgeVars, recVars, cfgVars, ctxVars, seqVars, brVars, ctx, loopKind,
                   loopSelector, attempt, formVars, stepVars, traceVars>>

\* the act request answers
ActResult ==
    /\ pc = "act"
    /\ \E ok \in BOOLEAN :
         IF ok
         THEN /\ pc' = "loop_return"
              /\ UNCHANGED <<lastError, waits, err>>
         ELSE AttemptFailed(Err(IF loopKind = "click" THEN "click_failed"
                                                      ELSE "type_failed"))
    /\ UNCHANGED <<resolveVars, walrusVars, bridgeVars, recVars, cfgVars, ctxVars, seqVars, brVars, ctx, loopKind,
                   loopSelector, attempt, snapshot, actRef, snapAttempt,
                   formVars, stepVars, traceVars>>

\* BackoffDone with the retry sending the act request again for the element
\* the failed attempt had resolved
BackoffDone_SkipSnapshot ==
    /\ pc = "backoff"
    /\ attempt' = attempt + 1
    /\ attempts' = attempts + 1
    /\ pc' = IF actRef.found THEN "act" ELSE "snapshot"
    /\ UNCHANGED <<resolveVars, walrusVars, bridgeVars, recVars, cfgVars, ctxVars, seqVars, err, brVars, ctx, loopKind,
                   loopSelector, lastError, snapshot, actRef, waits,
                   snapAttempt, formVars, logCalls, traceVars>>

\* the wait between two attempts is over: the next attempt asks for a snapshot
BackoffDone ==
    /\ pc = "backoff"
    /\ attempt' = attempt + 1
    /\ attempts' = attempts + 1
    /\ pc' = "snapshot"
    /\ UNCHANGED <<resolveVars, walrusVars, bridgeVars, recVars, cfgVars, ctxVars, seqVars, err, brVars, ctx, loopKind,
                   loopSelector, lastError, snapshot, actRef, waits,
                   snapAttempt, formVars, logCalls, traceVars>>

Fields == CurrentStep.params.fields

\* browser.fillForm after the type call for one field ended: the next field,
\* or its return and the test of result.failed in ActionExecutor.fillForm
FillFormNext(errorCount) ==
    /\ formErrors' = errorCount
    /\ IF fieldIdx < Len(Fields)
       THEN /\ fieldIdx' = fieldIdx + 1
            /\ EnterLoop("type", Fields[fieldIdx + 1].selector, "fill_form")
       ELSE /\ fieldIdx' = fieldIdx
            /\ IF errorCount > 0
               THEN Throw(Err("fill_form_failed"))
               ELSE pc' = "success" /\ err' = err
            /\ UNCHANGED <<loopVars, attempts>>

\* return result; of click / type, and what its caller does next
LoopReturn ==
    /\ pc = "loop_return"
    /\ CASE ctx \in {"click", "type"} ->
              /\ pc' = "success"
              /\ UNCHANGED <<err, loopVars, formVars, attempts>>
         [] ctx = "select_click" ->
              /\ pc' = "select_pause"
              /\ UNCHANGED <<err, loopVars, formVars, attempts>>
         [] ctx = "select_type" ->
              /\ pc' = "select_pause"
              /\ UNCHANGED <<err, loopVars, formVars, attempts>>
         [] ctx = "fill_form" ->
              FillFormNext(formErrors)
    /\ UNCHANGED <<resolveVars, walrusVars, bridgeVars, recVars, cfgVars, ctxVars, seqVars, brVars, logCalls, traceVars>>

\* throw after the loop; of click / type, and where it is caught
LoopThrow ==
    /\ pc = "loop_throw"
    /\ IF ctx = "fill_form"
       THEN FillFormNext(formErrors + 1)
       ELSE /\ pc' = "catch"
            /\ UNCHANGED <<err, loopVars, formVars, attempts>>
    /\ UNCHANGED <<resolveVars, walrusVars, bridgeVars, recVars, cfgVars, ctxVars, seqVars, brVars, logCalls, traceVars>>

\* select: await this.browser.wait(200) is over, after the click or the type
SelectPauseDone ==
    /\ pc = "select_pause"
    /\ IF ctx = "select_click"
       THEN EnterLoop("type", CurrentStep.params.selector, "select_type")
       ELSE /\ pc' = "success"
            /\ UNCHANGED <<err, loopVars, attempts>>
    /\ UNCHANGED <<resolveVars, walrusVars, bridgeVars, recVars, cfgVars, ctxVars, seqVars, brVars, formVars, logCalls,
                   traceVars>>

-----------------------------------------------------------------------------
(* The handlers executeStep dispatches to, up to their first await *)

Params == CurrentStep.params

\* destructuring params that is undefined
TypeError == Err("type_error")

-----------------------------------------------------------------------------
(* ActionExecutor.context and ActionExecutor.extractData *)

\* the values an extraction gives: a string, undefined, null
Str(s) == [str |-> s]
JsUndefined == [undefined |-> TRUE]
JsNull == [null |-> TRUE]

\* elemData[f]
Prop(elemData, f) ==
    IF f \in DOMAIN elemData THEN Str(elemData[f]) ELSE JsUndefined

\* a value taken as a condition
TruthyValue(v) == "str" \in DOMAIN v /\ v.str # <<>>

\* a || b
OrElse(a, b) == IF TruthyValue(a) THEN a ELSE b

\* the name of a function every object inherits under this key
S_Object == <<"O", "b", "j", "e", "c", "t">>
S_constructor == <<"c", "o", "n", "s", "t", "r", "u", "c", "t", "o", "r">>
InheritedFunction(key) ==
    [name |-> IF key = S_constructor THEN S_Object ELSE key]

\* elements[ref]: an own property, else an inherited one, else undefined
ElementAt(elements, ref) ==
    IF ref \in OwnKeys(elements)
    THEN [defined |-> TRUE,
          data |-> elements[CHOOSE i \in 1..Len(elements) :
                                 elements[i].key = ref].elem]
    ELSE IF ref \in ObjectPrototypeProps
    THEN [defined |-> TRUE, data |-> InheritedFunction(ref)]
    ELSE [defined |-> FALSE]

\* params.attribute, taken as a condition
HasAttribute(params) ==
    "attribute" \in DOMAIN params /\ params.attribute # ""

\* the reading that prefers value to text when no attribute is specified
ReadValue_ValueFirst(elemData, params) ==
    IF HasAttribute(params)
    THEN OrElse(OrElse(Prop(elemData, params.attribute),
                       Prop(elemData, "value")),
                Prop(elemData, "text"))
    ELSE OrElse(OrElse(Prop(elemData, "value"), Prop(elemData, "text")),
                Prop(elemData, "name"))

\* params.attribute ? elemData[params.attribute] || elemData.value || elemData.text
\*                  : elemData.text || elemData.value || elemData.name
ReadValue(elemData, params) ==
    IF HasAttribute(params)
    THEN OrElse(OrElse(Prop(elemData, params.attribute),
                       Prop(elemData, "value")),
                Prop(elemData, "text"))
    ELSE OrElse(OrElse(Prop(elemData, "text"), Prop(elemData, "value")),
                Prop(elemData, "name"))

\* the value extractData gives for one selector
ExtractOne(selector, params, elements) ==
    LET element == findElement(selector, elements)
    IN  IF element.found /\ ElementAt(elements, element.ref).defined
        THEN ReadValue(ElementAt(elements, element.ref).data, params)
        ELSE JsNull

\* the keys extractData writes: params.selector, and each of params.selectors
ExtractedKeys(params) ==
    (IF Truthy(params, "selector") THEN {params.selector} ELSE {})
        \cup (IF "selectors" \in DOMAIN params
              THEN {params.selectors[i] : i \in 1..Len(params.selectors)}
              ELSE {})

\* the object extracted that extractData builds on this snapshot
Extracted(params, elements) ==
    [k \in ExtractedKeys(params) |-> ExtractOne(k, params, elements)]

\* an assignment that leaves the target with the properties of the source
\* alone
ObjectAssign_SourceOnly(target, source) == source

\* Object.assign(target, source)
ObjectAssign(target, source) ==
    [k \in DOMAIN target \cup DOMAIN source |->
        IF k \in DOMAIN source THEN source[k] ELSE target[k]]

\* this.context[key] = value
S_currentUrl == <<"c", "u", "r", "r", "e", "n", "t", "U", "r", "l">>
Assigned(object, key, value) ==
    ObjectAssign(object, [k \in {key} |-> value])

\* getContext()
getContext == execContext

-----------------------------------------------------------------------------

\* case 'navigate': ActionExecutor.navigate, BrowserController.navigate
ExecNavigate ==
    /\ Dispatch("navigate")
    /\ IF ~HasParams(CurrentStep) THEN Throw(TypeError)
       ELSE IF ~Truthy(Params, "url") THEN Throw(Err("navigate_missing_url"))
       ELSE /\ pc' = IF isStarted THEN "navigate" ELSE "start"
            /\ err' = err
    /\ UNCHANGED <<resolveVars, walrusVars, bridgeVars, recVars, cfgVars, ctxVars, seqVars, brVars, loopVars, formVars,
                   stepVars, traceVars>>

\* result && result.status === 'ok'
StatusOk(result) == "status" \in DOMAIN result /\ result.status = "ok"

\* what the browser tool may answer to a start call
StartAnswers == {[status |-> "ok"], [status |-> "error"]}

\* BrowserController.start, awaited by navigate: the start call answers with
\* this result
StartReturns(result) ==
    /\ pc = "start"
    /\ IF StatusOk(result)
       THEN isStarted' = TRUE /\ pc' = "navigate" /\ err' = err
       ELSE isStarted' = isStarted /\ Throw(Err("browser_start_failed"))
    /\ UNCHANGED <<resolveVars, walrusVars, recVars, cfgVars, ctxVars, seqVars, currentTab, loopVars,
                   formVars, stepVars, traceVars>>

\* the start call answers
StartResult ==
    /\ \E result \in StartAnswers : StartReturns(result)
    /\ UNCHANGED bridgeVars

\* what the browser tool may answer to a navigate call
NavigateAnswers ==
    {[status |-> "ok", targetId |-> t] : t \in TargetIds}
        \cup {[status |-> "error"]}

\* result.targetId || result.tabId
Undefined == "undefined"
TargetOf(result) ==
    IF "targetId" \in DOMAIN result THEN result.targetId
    ELSE IF "tabId" \in DOMAIN result THEN result.tabId
    ELSE Undefined

\* a navigate call that loses the tab when it fails
NavigateGot_ClearsOnFailure(result) ==
    /\ pc = "navigate"
    /\ IF StatusOk(result)
       THEN /\ currentTab' = TargetOf(result)
            /\ execContext' = Assigned(execContext, S_currentUrl,
                                       Str(Params.url))
            /\ pc' = "success"
            /\ err' = err
       ELSE /\ currentTab' = Null
            /\ execContext' = execContext
            /\ Throw(Err("navigation_error"))
    /\ UNCHANGED <<resolveVars, walrusVars, bridgeVars, recVars, cfgVars, extracted, seqVars, isStarted,
                   loopVars, formVars, stepVars, traceVars>>

\* the navigate call answers with this result
NavigateGot(result) ==
    /\ pc = "navigate"
    /\ IF StatusOk(result)
       THEN /\ currentTab' = TargetOf(result)
            /\ execContext' = Assigned(execContext, S_currentUrl,
                                       Str(Params.url))
            /\ pc' = "success"
            /\ err' = err
       ELSE /\ currentTab' = currentTab
            /\ execContext' = execContext
            /\ Throw(Err("navigation_error"))
    /\ UNCHANGED <<resolveVars, walrusVars, recVars, cfgVars, extracted, seqVars, isStarted,
                   loopVars, formVars, stepVars, traceVars>>

\* the navigate call answers
NavigateResult ==
    /\ \E result \in NavigateAnswers : NavigateGot(result)
    /\ UNCHANGED bridgeVars

\* ActionExecutor.click(params), reached from case 'click' and from submit
ExecutorClick ==
    IF ~Truthy(Params, "selector")
    THEN Throw(Err("click_missing_selector")) /\ UNCHANGED <<loopVars, attempts>>
    ELSE EnterLoop("click", Params.selector, "click")

\* case 'click'
ExecClick ==
    /\ Dispatch("click")
    /\ IF ~HasParams(CurrentStep)
       THEN Throw(TypeError) /\ UNCHANGED <<loopVars, attempts>>
       ELSE ExecutorClick
    /\ UNCHANGED <<resolveVars, walrusVars, bridgeVars, recVars, cfgVars, ctxVars, seqVars, brVars, formVars, logCalls,
                   traceVars>>

\* case 'submit': ActionExecutor.submit
ExecSubmit ==
    /\ Dispatch("submit")
    /\ IF ~HasParams(CurrentStep)
       THEN Throw(TypeError) /\ UNCHANGED <<loopVars, attempts>>
       ELSE IF Truthy(Params, "selector")
       THEN ExecutorClick
       ELSE Throw(Err("submit_missing_selector")) /\ UNCHANGED <<loopVars, attempts>>
    /\ UNCHANGED <<resolveVars, walrusVars, bridgeVars, recVars, cfgVars, ctxVars, seqVars, brVars, formVars, logCalls,
                   traceVars>>

\* case 'type': ActionExecutor.type
ExecType ==
    /\ Dispatch("type")
    /\ IF ~HasParams(CurrentStep)
       THEN Throw(TypeError) /\ UNCHANGED <<loopVars, attempts>>
       ELSE IF ~Truthy(Params, "selector")
       THEN Throw(Err("type_missing_selector")) /\ UNCHANGED <<loopVars, attempts>>
       ELSE IF "text" \notin DOMAIN Params
       THEN Throw(Err("type_missing_text")) /\ UNCHANGED <<loopVars, attempts>>
       ELSE EnterLoop("type", Params.selector, "type")
    /\ UNCHANGED <<resolveVars, walrusVars, bridgeVars, recVars, cfgVars, ctxVars, seqVars, brVars, formVars, logCalls,
                   traceVars>>

\* case 'select': ActionExecutor.select, which clicks, waits, types, waits
ExecSelect ==
    /\ Dispatch("select")
    /\ IF ~HasParams(CurrentStep)
       THEN Throw(TypeError) /\ UNCHANGED <<loopVars, attempts>>
       ELSE IF ~Truthy(Params, "selector")
       THEN Throw(Err("select_missing_selector")) /\ UNCHANGED <<loopVars, attempts>>
       ELSE IF ~Truthy(Params, "value")
       THEN Throw(Err("select_missing_value")) /\ UNCHANGED <<loopVars, attempts>>
       ELSE EnterLoop("click", Params.selector, "select_click")
    /\ UNCHANGED <<resolveVars, walrusVars, bridgeVars, recVars, cfgVars, ctxVars, seqVars, brVars, formVars, logCalls,
                   traceVars>>

\* case 'fill_form': ActionExecutor.fillForm, BrowserController.fillForm
ExecFillForm ==
    /\ Dispatch("fill_form")
    /\ IF ~HasParams(CurrentStep)
       THEN Throw(TypeError) /\ UNCHANGED <<loopVars, attempts, formVars>>
       ELSE IF "fields" \notin DOMAIN Params
       THEN Throw(Err("fill_form_missing_fields"))
            /\ UNCHANGED <<loopVars, attempts, formVars>>
       ELSE IF ~isStarted
       THEN Throw(Err("browser_not_started"))
            /\ UNCHANGED <<loopVars, attempts, formVars>>
       ELSE IF Len(Fields) = 0
       THEN /\ pc' = "success"
            /\ UNCHANGED <<err, loopVars, attempts, formVars>>
       ELSE /\ fieldIdx' = 1
            /\ formErrors' = 0
            /\ EnterLoop("type", Fields[1].selector, "fill_form")
    /\ UNCHANGED <<resolveVars, walrusVars, bridgeVars, recVars, cfgVars, ctxVars, seqVars, brVars, logCalls, traceVars>>

\* const { duration = 1000 } = params
DefaultWait == 1000
WaitDuration(params) ==
    IF "duration" \in DOMAIN params THEN params.duration ELSE DefaultWait

\* case 'wait': ActionExecutor.wait awaits the timer of BrowserController.wait
ExecWait ==
    /\ Dispatch("wait")
    /\ IF ~HasParams(CurrentStep)
       THEN Throw(TypeError) /\ waits' = waits
       ELSE /\ pc' = "wait"
            /\ waits' = <<WaitDuration(Params)>>
            /\ err' = err
    /\ UNCHANGED <<resolveVars, walrusVars, bridgeVars, recVars, cfgVars, ctxVars, seqVars, brVars, ctx, loopKind,
                   loopSelector, attempt, lastError, snapshot, actRef,
                   snapAttempt, formVars, stepVars, traceVars>>

\* the timer fired: ActionExecutor.wait returns its result
WaitDone ==
    /\ pc = "wait"
    /\ pc' = "success"
    /\ UNCHANGED <<resolveVars, walrusVars, bridgeVars, recVars, cfgVars, ctxVars, seqVars, err, brVars, loopVars,
                   formVars, stepVars, traceVars>>

\* BrowserController.snapshot called by a handler: the not-started test, then
\* the snapshot call
PlainSnapshot ==
    IF ~isStarted THEN Throw(Err("browser_not_started"))
    ELSE pc' = "plain_snapshot" /\ err' = err

\* case 'extract': ActionExecutor.extractData
ExecExtract ==
    /\ Dispatch("extract")
    /\ IF ~HasParams(CurrentStep) THEN Throw(Err("extract_missing_params"))
       ELSE PlainSnapshot
    /\ UNCHANGED <<resolveVars, walrusVars, bridgeVars, recVars, cfgVars, ctxVars, seqVars, brVars, loopVars, formVars,
                   stepVars, traceVars>>

\* case 'snapshot': ActionExecutor.snapshot
ExecSnapshot ==
    /\ Dispatch("snapshot")
    /\ PlainSnapshot
    /\ UNCHANGED <<resolveVars, walrusVars, bridgeVars, recVars, cfgVars, ctxVars, seqVars, brVars, loopVars, formVars,
                   stepVars, traceVars>>

\* the snapshot call of extract / snapshot answers with these elements, or
\* fails; extractData goes on to read the values and to merge them into
\* this.context
PlainSnapshotGot(ok, s) ==
    /\ pc = "plain_snapshot"
    /\ IF ok
       THEN /\ snapshot' = s
            /\ pc' = "success"
            /\ err' = err
            /\ IF CurrentStep.type = "extract"
               THEN /\ extracted' = [returned |-> TRUE,
                                     data |-> Extracted(Params, s)]
                    /\ execContext' =
                         ObjectAssign(execContext, Extracted(Params, s))
               ELSE UNCHANGED ctxVars
       ELSE /\ snapshot' = snapshot
            /\ Throw(Err("snapshot_error"))
            /\ UNCHANGED ctxVars
    /\ UNCHANGED <<resolveVars, walrusVars, bridgeVars, recVars, cfgVars, seqVars, brVars, ctx, loopKind,
                   loopSelector, attempt, lastError, actRef, waits,
                   snapAttempt, formVars, stepVars, traceVars>>

\* the snapshot call of extract / snapshot answers
PlainSnapshotResult ==
    \E ok \in BOOLEAN, s \in SnapPool : PlainSnapshotGot(ok, s)

-----------------------------------------------------------------------------

Next ==
    \/ NextStep
    \/ ReturnSummary
    \/ ExecInvalid
    \/ ExecUnknown
    \/ ExecNavigate
    \/ StartResult
    \/ NavigateResult
    \/ ExecClick
    \/ ExecSubmit
    \/ ExecType
    \/ ExecSelect
    \/ ExecFillForm
    \/ ExecWait
    \/ WaitDone
    \/ ExecExtract
    \/ ExecSnapshot
    \/ PlainSnapshotResult
    \/ SnapshotResult
    \/ ActResult
    \/ BackoffDone
    \/ LoopReturn
    \/ LoopThrow
    \/ SelectPauseDone
    \/ StepSuccess
    \/ StepCatch

Spec == Init /\ [][Next]_vars

-----------------------------------------------------------------------------
(* Claims about executeSteps and executeStep *)

\* a point where no executeStep call is running and at least one has returned
Between == pc \in {"loop", "break", "returned"} /\ idx > 0

\* the pushed results that failed on a step lacking continueOnError
Stoppers ==
    {i \in 1..Len(results) :
        ~results[i].success /\ ~ContinueOnError(steps[i])}

\* the pushed results that failed on a step having continueOnError
Tolerated ==
    {i \in 1..Len(results) :
        ~results[i].success /\ ContinueOnError(steps[i])}

C2_NeverThrows ==
    /\ pc # "thrown"
    /\ \A i \in 1..Len(results) :
         ~results[i].success =>
            results[i].status = "error" /\ results[i].error # NoError

(* C2: executeStep never throws for a step that has a type: unknown kinds,   *)
(* missing parameters and failed browser operations end in a result with     *)
(* success FALSE, status 'error' and the message; only a step without a      *)
(* type makes the call throw, 'Invalid step: missing type'.                  *)
C2_TypedStepNeverThrows ==
    /\ pc = "thrown" =>
         /\ ~HasTruthyType(CurrentStep)
         /\ err = Err("invalid_step_missing_type")
    /\ pc = "catch" => HasTruthyType(CurrentStep) /\ err # NoError
    /\ \A i \in 1..Len(results) :
         /\ HasTruthyType(steps[i])
         /\ ~results[i].success =>
              results[i].status = "error" /\ results[i].error # NoError

\* an unknown kind and a failed browser operation, both ended in results
C2_Witness ==
    /\ Len(results) = 2
    /\ results[1].error.kind = "unknown_action_type"
    /\ results[2].error.kind = "click_failed_after"
    /\ results[2].status = "error"

InFlight ==
    pc \in {"start", "navigate", "snapshot", "act", "plain_snapshot", "wait",
            "backoff", "select_pause"}

(* C4: executeSteps is sequential and keeps the order: results[i] is the     *)
(* result of steps[i], and while an operation of step k is in flight the     *)
(* results of the k-1 steps before it are in results and, with a recorder    *)
(* attached, in the recorder.                                                *)
C4_SequentialInOrder ==
    /\ \A i \in 1..Len(results) : results[i].step = steps[i]
    /\ Len(results) <= idx
    /\ InFlight =>
         /\ Len(results) = idx - 1
         /\ hasLogger => Len(traceSteps) = idx - 1

\* the act request of the second step is out, the first result is recorded
C4_Witness ==
    /\ pc = "act"
    /\ idx = 2
    /\ steps[1] # steps[2]
    /\ hasLogger
    /\ Len(traceSteps) = 1

\* an executeStep call has ended, by returning or by throwing
CallEnded == Between \/ pc = "thrown"

(* C5 as stated: with a recorder attached, every executeStep call has        *)
(* called logStep exactly once when it ends.                                 *)
C5_LogStepOncePerCall ==
    (hasLogger /\ CallEnded) => logCalls = 1

(* C5: with a recorder attached, every executeStep call on a step that has   *)
(* a type calls logStep exactly once, on success and on failure; a call on   *)
(* a step without a type throws before any logStep; between calls the        *)
(* recorder holds one entry per result.                                      *)
C5_LogStepOncePerTypedCall ==
    hasLogger =>
        /\ logCalls <= 1
        /\ Between => logCalls = 1 /\ Len(traceSteps) = Len(results)
        /\ pc = "thrown" =>
             /\ logCalls = 0
             /\ ~HasTruthyType(CurrentStep)
             /\ Len(traceSteps) = Len(results)
        /\ \A i \in 1..Len(results) :
             /\ i <= Len(traceSteps)
             /\ traceSteps[i].status = results[i].status

\* a success and a failure, each logged once
C5_Witness ==
    /\ hasLogger
    /\ pc = "returned"
    /\ Len(results) = 2
    /\ results[1].success
    /\ ~results[2].success
    /\ logCalls = 1
    /\ Len(traceSteps) = 2

-----------------------------------------------------------------------------
(* Claims about the retry loop of click and type *)

(* C6: in the retry loop every attempt first takes a snapshot, resolves the  *)
(* element on that snapshot and only after a successful resolution sends     *)
(* the act request with the resolved ref; a ref resolved in an earlier       *)
(* attempt is never sent again, and the loop returns on the first attempt    *)
(* whose act succeeds, without a further attempt.                            *)
C6_FreshSnapshotEachAttempt ==
    [][ /\ pc' = "act" =>
             /\ pc = "snapshot"
             /\ attempt' = attempt
             /\ snapAttempt' = attempt
             /\ actRef' = findElement(loopSelector, snapshot')
             /\ actRef'.found
        /\ (pc = "backoff" /\ pc' # "backoff") =>
             pc' = "snapshot" /\ attempt' = attempt + 1
        /\ pc = "act" =>
             /\ snapAttempt = attempt
             /\ pc' \in {"loop_return", "backoff", "loop_throw"}
        /\ pc = "loop_return" =>
             /\ pc' # "backoff"
             /\ pc' = "snapshot" => attempt' = 1
      ]_vars

\* the act request of a second attempt is out, with the ref resolved on the
\* snapshot of that attempt, after a first attempt that had resolved one too
C6_Witness ==
    /\ pc = "act"
    /\ attempt = 2
    /\ snapAttempt = 2
    /\ lastError.kind \in {"click_failed", "type_failed"}
    /\ actRef = findElement(loopSelector, snapshot)

\* the step kinds that address an element
ElementKinds == {"click", "type", "select", "submit"}

\* an executeStep call on a step of kind k is running or has just ended
InCallOf(k) ==
    /\ idx > 0
    /\ pc # "thrown"
    /\ HasTruthyType(CurrentStep)
    /\ CurrentStep.type = k

(* C7 as stated: one executeStep call on a click, type, select or submit     *)
(* step makes at most maxRetries snapshot-resolve-act attempts in total.     *)
C7_AtMostMaxRetries ==
    \A k \in ElementKinds : InCallOf(k) => attempts <= maxRetries

(* C7: one executeStep call on a click, type or submit step makes at most    *)
(* maxRetries snapshot-resolve-act attempts; a call on a select step runs    *)
(* the click loop and then the type loop, each of at most maxRetries         *)
(* attempts, at most 2 * maxRetries in total.                                *)
C7_AtMostMaxRetriesPerLoop ==
    /\ \A k \in ElementKinds \ {"select"} :
          InCallOf(k) => attempts <= maxRetries
    /\ InCallOf("select") => attempts <= 2 * maxRetries
    /\ attempt <= maxRetries
    /\ pc \in {"snapshot", "act", "backoff", "loop_throw", "loop_return"} =>
          attempt >= 1

\* a select step that failed after using every attempt of both loops
C7_Witness ==
    /\ InCallOf("select")
    /\ pc = "catch"
    /\ maxRetries = DefaultMaxRetries
    /\ attempts = 2 * maxRetries

\* the waits of a loop that has backed off n times
LinearWaits(n) == [k \in 1..n |-> BackoffBase * k]

\* the contexts in which the error of the loop is the error of the step
StepLevel == {"click", "type", "select_click", "select_type"}

-----------------------------------------------------------------------------
(* ExecutionLogger driven by a caller: any call, in any order *)

\* entries logged into one trace, and the clock, in the runs explored
MaxTrace == 2
MaxTime == 2

\* arguments of setState: the four states, and two values that are none of
\* them (the comparison is strict, so the upper-case name is not a state)
StateArgs == ExecutionStates \cup {"COMPLETED", "paused"}

\* arguments of logStep: the step and the status
LogStepPool ==
    { <<[name |-> S_ab, type |-> "click"], "success">>,
      <<[id |-> S_b], "error">>,
      <<[name |-> S_ab, type |-> "click"], "skipped">> }

\* arguments of logError: an Error with a context object, and a string with
\* the default context {}
LogErrorPool ==
    { <<ErrorObject(S_ab), [step |-> S_b]>>,
      <<OtherValue(S_b), EmptyObject>> }

GoalPool == {"goal_1"}

FinalResultPool == {"result_1"}

SessionIds == {"exec_1"}

InitLogger ==
    /\ fPc = "idle"
    /\ fSelector = <<>>
    /\ fSnapshot = <<>>
    /\ fResult = NotFound
    /\ ExecIdle
    /\ WalrusIdle
    /\ \E id \in SessionIds : LoggerConstructed(id, 1)
    /\ StorageConstructed(FALSE, TRUE)

\* what no method of ExecutionLogger assigns
LoggerFrame == UNCHANGED <<resolveVars, walrusVars, runVars, storeVars, sessionId, now>>

\* the last call made: a method that returned, setState(newState) with the
\* way it ended, and logError(error, context)
Returned(op) == [op |-> op, threw |-> FALSE]
SetStateEnded(newState, threw) ==
    [op |-> "setState", threw |-> threw, arg |-> newState]
LogErrorEnded(error, context) ==
    [op |-> "logError", threw |-> FALSE, error |-> error, context |-> context]

\* time passes between two calls
Tick ==
    /\ now < MaxTime
    /\ now' = now + 1
    /\ UNCHANGED <<resolveVars, walrusVars, runVars, traceVars, storeVars, sessionId,
                   traceSessionId, goal, startTime, finalResult, lastOp>>

SetGoal ==
    /\ \E g \in GoalPool : goal' = g
    /\ lastOp' = Returned("setGoal")
    /\ LoggerFrame
    /\ UNCHANGED <<traceVars, traceSessionId, startTime, finalResult>>

\* setState that assigns the state before it tests the value
SetState_AssignsBeforeTest ==
    /\ \E newState \in StateArgs :
         /\ setState(newState)
         /\ lastOp' = SetStateEnded(newState, newState \notin ExecutionStates)
    /\ LoggerFrame
    /\ UNCHANGED <<traceSteps, traceError, traceSessionId, goal, startTime,
                   finalResult>>

\* ExecutionLogger.setState
SetState ==
    /\ \E newState \in StateArgs :
         IF newState \notin ExecutionStates
         THEN /\ lastOp' = SetStateEnded(newState, TRUE)
              /\ UNCHANGED <<state, endTime>>
         ELSE /\ setState(newState)
              /\ lastOp' = SetStateEnded(newState, FALSE)
    /\ LoggerFrame
    /\ UNCHANGED <<traceSteps, traceError, traceSessionId, goal, startTime,
                   finalResult>>

LogStep ==
    /\ Len(traceSteps) < MaxTrace
    /\ \E call \in LogStepPool :
         traceSteps' = logStep(traceSteps, call[1], call[2])
    /\ lastOp' = Returned("logStep")
    /\ LoggerFrame
    /\ UNCHANGED <<state, traceError, endTime, traceSessionId, goal, startTime,
                   finalResult>>

LogError ==
    /\ \E call \in LogErrorPool :
         /\ logError(call[1], call[2])
         /\ lastOp' = LogErrorEnded(call[1], call[2])
    /\ LoggerFrame
    /\ UNCHANGED <<traceSteps, traceSessionId, goal, startTime, finalResult>>

SetFinalResult ==
    /\ \E r \in FinalResultPool : finalResult' = r
    /\ lastOp' = Returned("setFinalResult")
    /\ LoggerFrame
    /\ UNCHANGED <<traceVars, traceSessionId, goal, startTime>>

\* this.trace.steps.filter(s => s.status === status).length
CountStatus(trace, status) ==
    Len(SelectSeq(trace, LAMBDA s : s.status = status))

\* getSummary with every entry that is not a success counted as failed
getSummary_FailedIsNotSuccess ==
    [sessionId       |-> traceSessionId,
     goal            |-> goal,
     state           |-> state,
     startTime       |-> startTime,
     endTime         |-> endTime,
     totalSteps      |-> Len(traceSteps),
     successfulSteps |-> CountStatus(traceSteps, "success"),
     failedSteps     |-> Len(traceSteps) - CountStatus(traceSteps, "success"),
     completed       |-> state = "completed",
     failed          |-> state = "failed"]

\* the value getSummary() returns
getSummary ==
    [sessionId       |-> traceSessionId,
     goal            |-> goal,
     state           |-> state,
     startTime       |-> startTime,
     endTime         |-> endTime,
     totalSteps      |-> Len(traceSteps),
     successfulSteps |-> CountStatus(traceSteps, "success"),
     failedSteps     |-> CountStatus(traceSteps, "error"),
     completed       |-> state = "completed",
     failed          |-> state = "failed"]

GetSummary ==
    /\ lastOp' = [op |-> "getSummary", threw |-> FALSE, value |-> getSummary]
    /\ LoggerFrame
    /\ UNCHANGED <<traceVars, traceSessionId, goal, startTime, finalResult>>

\* reset that leaves trace.endTime as it is
reset_KeepsEndTime ==
    /\ state' = "planning"
    /\ traceSessionId' = sessionId
    /\ goal' = Null
    /\ startTime' = now
    /\ endTime' = endTime
    /\ traceSteps' = <<>>
    /\ finalResult' = Null
    /\ traceError' = NoError

\* the assignments of reset()
reset ==
    /\ state' = "planning"
    /\ traceSessionId' = sessionId
    /\ goal' = Null
    /\ startTime' = now
    /\ endTime' = NoTime
    /\ traceSteps' = <<>>
    /\ finalResult' = Null
    /\ traceError' = NoError

\* reset that starts a new session
Reset_NewSession ==
    /\ state' = "planning"
    /\ sessionId' = "exec_2"
    /\ traceSessionId' = "exec_2"
    /\ goal' = Null
    /\ startTime' = now
    /\ endTime' = NoTime
    /\ traceSteps' = <<>>
    /\ finalResult' = Null
    /\ traceError' = NoError
    /\ lastOp' = Returned("reset")
    /\ UNCHANGED <<resolveVars, walrusVars, runVars, storeVars, now>>

\* ExecutionLogger.reset
Reset ==
    /\ reset
    /\ lastOp' = Returned("reset")
    /\ LoggerFrame

NextLogger ==
    \/ Tick
    \/ SetGoal
    \/ SetState
    \/ LogStep
    \/ LogError
    \/ SetFinalResult
    \/ GetSummary
    \/ Reset

SpecLogger == InitLogger /\ [][NextLogger]_vars

(***************************************************************************)
(* PersistentLogger.storeTask and storeTrace: calls in flight, and the     *)
(* blob store answering each                                               *)
(***************************************************************************)

\* store calls made in the runs explored
MaxCalls == 2

\* arguments of storeTask
TaskIds == {"task_1"}

\* blob ids the store returns, and messages of the errors it throws
BlobIds == {"blob_1", "blob_2"}
StoreErrors == {"Failed to store data to Walrus: fetch failed"}

\* what WalrusClient.store returns
StoreResult(blobId) == [success |-> TRUE, blobId |-> blobId]

\* the number of store calls made so far
CallsMade == done + BagCardinality(inflight)

PersistFrame == UNCHANGED <<resolveVars, walrusVars, runVars, sessionId, autoStore,
                            gracefulDegradation>>

\* a store call that awaits the blob store: its type and the task id handed
\* to the store
Begun(type, taskId) == [type |-> type, taskId |-> taskId]

\* storeTrace(metadata) up to its await: the task id handed to the store is
\* this.storage.taskId || this.sessionId
storeTrace ==
    Begun("storeTrace",
          IF storage.taskId # Null THEN storage.taskId ELSE sessionId)

\* the bag of n calls that are alike
Times(n, call) == IF n = 0 THEN EmptyBag ELSE [c \in {call} |-> n]

\* storeTask(taskId, goal, metadata) up to its await
StoreTask ==
    /\ CallsMade < MaxCalls
    /\ \E taskId \in TaskIds :
         inflight' = inflight (+) SetToBag({Begun("storeTask", taskId)})
    /\ PersistFrame
    /\ UNCHANGED <<traceVars, logVars, storage, done>>

\* storeTrace(metadata) called directly, up to its await
StoreTrace ==
    /\ CallsMade < MaxCalls
    /\ inflight' = inflight (+) SetToBag({storeTrace})
    /\ PersistFrame
    /\ UNCHANGED <<traceVars, logVars, storage, done>>

\* the assignments after the await that leave out the time of storage
Stored_BlobIdOnly(call, result) ==
    IF call.type = "storeTask"
    THEN [storage EXCEPT !.taskId = call.taskId, !.taskBlobId = result.blobId]
    ELSE [storage EXCEPT !.traceBlobId = result.blobId]

\* the assignments after the await, when the store returned result
Stored(call, result) ==
    IF call.type = "storeTask"
    THEN [storage EXCEPT !.taskId = call.taskId, !.taskBlobId = result.blobId]
    ELSE [storage EXCEPT !.traceBlobId = result.blobId, !.storedAt = now]

\* a call in flight ends: what the store did and what the caller got
StoreEnded(call, walrus, threw, value) ==
    [op |-> call.type, walrus |-> walrus, threw |-> threw, value |-> value]

\* the store returns a result to a call in flight
StoreResolves ==
    /\ \E call \in BagToSet(inflight), blobId \in BlobIds :
         /\ storage' = Stored(call, StoreResult(blobId))
         /\ lastOp' = StoreEnded(call, "resolved", FALSE, StoreResult(blobId))
         /\ inflight' = inflight (-) SetToBag({call})
         /\ done' = done + 1
    /\ PersistFrame
    /\ UNCHANGED <<traceVars, sessionId, traceSessionId, goal, startTime,
                   finalResult, now>>

\* the catch block that records the error and a time of storage with it
RecordError_AlsoStamps(type, message) ==
    [storage EXCEPT !.errors = Append(@, [type      |-> type,
                                          error     |-> message,
                                          timestamp |-> now]),
                    !.storedAt = now]

\* the catch block that keeps the last error only
RecordError_KeepsLast(type, message) ==
    [storage EXCEPT !.errors = <<[type      |-> type,
                                  error     |-> message,
                                  timestamp |-> now]>>]

\* this.storage.errors.push({type, error: error.message, timestamp})
RecordError(type, message) ==
    [storage EXCEPT !.errors = Append(@, [type      |-> type,
                                          error     |-> message,
                                          timestamp |-> now])]

\* the catch block that returns the failure whatever gracefulDegradation is
Rethrows_Never == FALSE

\* if (!this.gracefulDegradation) throw new Error(...)
Rethrows == ~gracefulDegradation

\* the Error thrown, and the value returned, by the catch block
StoreFailure(type, message) ==
    IF type = "storeTask"
    THEN ErrorObject(<<"Failed to store task to Walrus: ", message>>)
    ELSE ErrorObject(<<"Failed to store trace to Walrus: ", message>>)
Degraded(message) == [success |-> FALSE, error |-> message]

\* the store throws an Error in a call in flight
StoreRejects ==
    /\ \E call \in BagToSet(inflight), message \in StoreErrors :
         /\ storage' = RecordError(call.type, message)
         /\ lastOp' = IF Rethrows
                      THEN StoreEnded(call, "rejected", TRUE,
                                      StoreFailure(call.type, message))
                      ELSE StoreEnded(call, "rejected", FALSE,
                                      Degraded(message))
         /\ inflight' = inflight (-) SetToBag({call})
         /\ done' = done + 1
    /\ PersistFrame
    /\ UNCHANGED <<traceVars, sessionId, traceSessionId, goal, startTime,
                   finalResult, now>>

\* options.store !== false, for the options of setState and setFinalResult
StoreOptions == BOOLEAN

\* a method begins n calls of storeTrace before it first awaits
Begins(n) ==
    /\ CallsMade + n <= MaxCalls
    /\ inflight' = inflight (+) Times(n, storeTrace)

\* an async method whose promise is rejected before its first await
Rejected(op) == [op |-> op, threw |-> TRUE]

\* setState that stores the trace whatever options.store is
PersistentSetState_IgnoresOption(newState, store) ==
    /\ IF newState \notin ExecutionStates
       THEN /\ lastOp' = Rejected("setState")
            /\ UNCHANGED <<state, endTime, inflight>>
       ELSE /\ setState(newState)
            /\ lastOp' = Returned("setState")
            /\ IF autoStore /\ newState \in Terminal
               THEN Begins(1)
               ELSE Begins(0)
    /\ PersistFrame
    /\ UNCHANGED <<traceSteps, traceError, traceSessionId, goal, startTime,
                   finalResult, now, storage, done>>

\* PersistentLogger.setState(newState, options) up to its await
PersistentSetState(newState, store) ==
    /\ IF newState \notin ExecutionStates
       THEN /\ lastOp' = Rejected("setState")
            /\ UNCHANGED <<state, endTime, inflight>>
       ELSE /\ setState(newState)
            /\ lastOp' = Returned("setState")
            /\ IF autoStore /\ store /\ newState \in Terminal
               THEN Begins(1)
               ELSE Begins(0)
    /\ PersistFrame
    /\ UNCHANGED <<traceSteps, traceError, traceSessionId, goal, startTime,
                   finalResult, now, storage, done>>

\* PersistentLogger.logError(error, context) up to its await: super.logError
\* calls this.setState(FAILED), which is PersistentLogger.setState
PersistentLogError(error, context) ==
    /\ logError(error, context)
    /\ lastOp' = Returned("logError")
    /\ IF autoStore
       THEN Begins(2)
       ELSE Begins(0)
    /\ PersistFrame
    /\ UNCHANGED <<traceSteps, traceSessionId, goal, startTime, finalResult,
                   now, storage, done>>

\* PersistentLogger.setFinalResult(result, options) up to its await
PersistentSetFinalResult(result, store) ==
    /\ finalResult' = result
    /\ lastOp' = Returned("setFinalResult")
    /\ IF autoStore /\ store /\ state \in Terminal
       THEN Begins(1)
       ELSE Begins(0)
    /\ PersistFrame
    /\ UNCHANGED <<traceVars, traceSessionId, goal, startTime, now, storage,
                   done>>

\* isPersisted that takes a stored task for a stored trace
isPersisted_AnyBlob ==
    storage.traceBlobId # Null \/ storage.taskBlobId # Null

\* isPersisted()
isPersisted == storage.traceBlobId # Null

\* the assignments of PersistentLogger.reset: super.reset() and a new,
\* empty this.storage
ResetReturns ==
    /\ reset
    /\ storage' = EmptyStorage
    /\ lastOp' = Returned("reset")
    /\ PersistFrame
    /\ UNCHANGED <<now, done>>

\* PersistentLogger.reset
PersistentReset ==
    /\ ResetReturns
    /\ inflight' = inflight

InitPersist ==
    /\ fPc = "idle"
    /\ fSelector = <<>>
    /\ fSnapshot = <<>>
    /\ fResult = NotFound
    /\ ExecIdle
    /\ WalrusIdle
    /\ \E id \in SessionIds : LoggerConstructed(id, 1)
    /\ \E as \in BOOLEAN, gd \in BOOLEAN : StorageConstructed(as, gd)

\* the first entry of a trace is logged, a successful step
LogFirstStep ==
    /\ traceSteps = <<>>
    /\ LogStep
    /\ traceSteps'[1].status = "success"

NextPersist ==
    \/ SetGoal
    \/ LogFirstStep
    \/ \E newState \in StateArgs, store \in StoreOptions :
         PersistentSetState(newState, store)
    \/ \E call \in LogErrorPool : PersistentLogError(call[1], call[2])
    \/ \E result \in FinalResultPool, store \in StoreOptions :
         PersistentSetFinalResult(result, store)
    \/ StoreTask
    \/ StoreTrace
    \/ StoreResolves
    \/ StoreRejects
    \/ PersistentReset

SpecPersist == InitPersist /\ [][NextPersist]_vars

(***************************************************************************)
(* PersistentLogger, with the calls that a reset overtakes told apart    *)
(***************************************************************************)

\* a call in flight that was begun before the last reset: it goes on as it
\* was, and reads this.storage again when the store has answered
Stale(call) == [type |-> call.type, taskId |-> call.taskId, stale |-> TRUE]

IsStale(call) == "stale" \in DOMAIN call

Copies(bag, call) == IF call \in DOMAIN bag THEN bag[call] ELSE 0

\* the calls of a bag, every one of them begun before the reset
AllStale(bag) ==
    [call \in {Stale(c) : c \in DOMAIN bag} |->
        Copies(bag, call) + Copies(bag, Begun(call.type, call.taskId))]

\* PersistentLogger.reset, the calls in flight going on
ResetOvertakes ==
    /\ ResetReturns
    /\ inflight' = AllStale(inflight)

NextOvertaken ==
    \/ SetGoal
    \/ LogFirstStep
    \/ \E newState \in StateArgs, store \in StoreOptions :
         PersistentSetState(newState, store)
    \/ \E call \in LogErrorPool : PersistentLogError(call[1], call[2])
    \/ \E result \in FinalResultPool, store \in StoreOptions :
         PersistentSetFinalResult(result, store)
    \/ StoreTask
    \/ StoreTrace
    \/ StoreResolves
    \/ StoreRejects
    \/ ResetOvertakes

SpecOvertaken == InitPersist /\ [][NextOvertaken]_vars

(***************************************************************************)
(* Claims about ExecutionLogger                                            *)
(***************************************************************************)

\* the entries of a trace are those of an earlier one, followed by more
Extends(later, earlier) ==
    /\ Len(later) >= Len(earlier)
    /\ SubSeq(later, 1, Len(earlier)) = earlier

\* C12: every logStep call makes trace.steps longer by exactly one entry, and
\* the stepIndex of the new entry is the length before the call; in every
\* state the stepIndex of each entry is its position, counted from zero; and
\* no operation but reset removes or changes an entry that is there.
C12_AppendOnly ==
    [][ /\ LogStep =>
             /\ Len(traceSteps') = Len(traceSteps) + 1
             /\ traceSteps'[Len(traceSteps')].stepIndex = Len(traceSteps)
        /\ \A i \in 1..Len(traceSteps') : traceSteps'[i].stepIndex = i - 1
        /\ Reset \/ Extends(traceSteps', traceSteps) ]_vars

\* two entries were logged, and an operation other than logStep followed
C12_Witness ==
    /\ Len(traceSteps) = 2
    /\ traceSteps[2].stepIndex = 1
    /\ lastOp.op = "logError"

\* C13: setState(COMPLETED) and setState(FAILED) leave trace.endTime
\* non-null; setState(PLANNING) and setState(EXECUTING) leave trace.endTime
\* exactly as it was, null or not.
C13_EndTimeBySetState ==
    [][ (SetState /\ ~lastOp'.threw) =>
            /\ state' \in Terminal => endTime' # NoTime
            /\ state' \in {"planning", "executing"} => endTime' = endTime ]_vars

\* setState(FAILED) has returned on a trace no error was logged into, so the
\* endTime it carries was stamped by setState
C13_Witness ==
    /\ lastOp = SetStateEnded("failed", FALSE)
    /\ state = "failed"
    /\ traceError = NoError
    /\ endTime # NoTime

\* a call that enters COMPLETED or FAILED: setState with one of the two, or
\* logError
EntersTerminal ==
    \/ SetState /\ ~lastOp'.threw /\ state' \in Terminal
    \/ LogError

\* C14 as stated: once trace.endTime is non-null, a later entry into COMPLETED
\* or FAILED, by setState or by logError, leaves it unchanged.
C14_StampedOnce ==
    [][ (EntersTerminal /\ endTime # NoTime) => endTime' = endTime ]_vars

\* C14: every entry into COMPLETED or FAILED, by setState or by logError,
\* stamps trace.endTime with the time of that call, whether trace.endTime was
\* null or not before it.
C14_StampedAtEveryEntry ==
    [][ EntersTerminal => endTime' = now ]_vars

\* the trace was completed after an error had been logged into it at an
\* earlier time: the endTime of the error has been replaced
C14_Witness ==
    /\ traceError # NoError
    /\ state = "completed"
    /\ traceError.timestamp < endTime

\* C15: setState with a value that is none of planning, executing, completed
\* and failed throws, and leaves state, trace.endTime and trace.steps as they
\* were; setState with one of the four returns, in whatever state it is
\* called, and that value is the state afterwards.
C15_SetStateTestsItsArgument ==
    /\ [](\A newState \in StateArgs : ENABLED (SetState /\ lastOp'.arg = newState))
    /\ [][ SetState =>
             IF lastOp'.arg \in ExecutionStates
             THEN /\ ~lastOp'.threw
                  /\ state' = lastOp'.arg
             ELSE /\ lastOp'.threw
                  /\ state' = state
                  /\ endTime' = endTime
                  /\ traceSteps' = traceSteps ]_vars

\* setState('paused') has thrown on a failed trace with an entry in it, and
\* the trace is still failed
C15_Witness ==
    /\ lastOp = SetStateEnded("paused", TRUE)
    /\ state = "failed"
    /\ endTime # NoTime
    /\ Len(traceSteps) > 0

\* C16: logError, in whatever state it is called, sets trace.error to the
\* given message (the message of an Error, or the value itself) and the given
\* context, leaves the logger in state FAILED with a non-null trace.endTime,
\* and leaves trace.steps as it was.
C16_LogErrorFails ==
    /\ [](\A call \in LogErrorPool : ENABLED (LogError /\ lastOp'.error = call[1]))
    /\ [][ LogError =>
             /\ traceError'.message =
                  IF lastOp'.error.instanceofError
                  THEN lastOp'.error.message
                  ELSE lastOp'.error.value
             /\ traceError'.context = lastOp'.context
             /\ state' = "failed"
             /\ endTime' # NoTime
             /\ traceSteps' = traceSteps ]_vars

\* logError was called with a string on a trace of two entries
C16_Witness ==
    /\ lastOp = LogErrorEnded(OtherValue(S_b), EmptyObject)
    /\ traceError.message = S_b
    /\ state = "failed"
    /\ Len(traceSteps) = 2

\* C17: reset, in whatever state it is called, leaves the logger in state
\* PLANNING with no entries in trace.steps and with finalResult, error, goal
\* and endTime null, and leaves sessionId as it was; sessionId, and the
\* sessionId of the trace, have the same value in every state, whatever
\* the operations called.
C17_ResetKeepsSession ==
    /\ [](ENABLED Reset)
    /\ [](traceSessionId = sessionId)
    /\ [][sessionId' = sessionId]_vars
    /\ [][ Reset =>
             /\ state' = "planning"
             /\ traceSteps' = <<>>
             /\ finalResult' = Null
             /\ traceError' = NoError
             /\ goal' = Null
             /\ endTime' = NoTime
             /\ sessionId' = sessionId
             /\ traceSessionId' = sessionId ]_vars

\* reset was called at a later time than the logger was constructed
C17_Witness ==
    /\ lastOp = Returned("reset")
    /\ startTime > 1
    /\ state = "planning"
    /\ traceSteps = <<>>
    /\ traceSessionId = "exec_1"

\* the positions of the entries of trace.steps with the given status
WithStatus(status) ==
    {i \in 1..Len(traceSteps) : traceSteps[i].status = status}

\* C18: getSummary changes nothing, and what it returns is determined by the
\* trace and the state it is called in: totalSteps is the number of entries,
\* successfulSteps the number of entries with status 'success', failedSteps
\* the number of entries with status 'error', completed is true exactly in
\* state COMPLETED and failed exactly in state FAILED; so successfulSteps +
\* failedSteps is at most totalSteps, and completed and failed are never
\* both true.
C18_SummaryOfTrace ==
    /\ [](ENABLED GetSummary)
    /\ [][ GetSummary =>
             LET returned == lastOp'.value IN
             /\ UNCHANGED <<traceVars, sessionId, traceSessionId, goal, startTime,
                            finalResult>>
             /\ returned.totalSteps = Len(traceSteps)
             /\ returned.successfulSteps = Cardinality(WithStatus("success"))
             /\ returned.failedSteps = Cardinality(WithStatus("error"))
             /\ returned.completed <=> state = "completed"
             /\ returned.failed <=> state = "failed"
             /\ returned.successfulSteps + returned.failedSteps
                  <= returned.totalSteps
             /\ ~(returned.completed /\ returned.failed) ]_vars

\* a summary of a failed trace of two entries, one of them skipped
C18_Witness ==
    /\ lastOp.op = "getSummary"
    /\ lastOp.value.totalSteps = 2
    /\ lastOp.value.successfulSteps = 1
    /\ lastOp.value.failedSteps = 0
    /\ lastOp.value.failed
    /\ ~lastOp.value.completed

(***************************************************************************)
(* Claims about PersistentLogger                                           *)
(***************************************************************************)

\* C19: with gracefulDegradation enabled, a storeTask or storeTrace call
\* whose store call fails returns {success: false, error: <the message>}
\* and does not throw, adds exactly one entry to storage.errors, and leaves
\* taskId, taskBlobId, traceBlobId, storedAt and the trace as they were.
C19_DegradesGracefully ==
    [][ (StoreRejects /\ gracefulDegradation) =>
          /\ ~lastOp'.threw
          /\ lastOp'.value.success = FALSE
          /\ lastOp'.value.error \in StoreErrors
          /\ Len(storage'.errors) = Len(storage.errors) + 1
          /\ Extends(storage'.errors, storage.errors)
          /\ storage'.errors[Len(storage'.errors)].type = lastOp'.op
          /\ storage'.errors[Len(storage'.errors)].error = lastOp'.value.error
          /\ storage'.taskId = storage.taskId
          /\ storage'.taskBlobId = storage.taskBlobId
          /\ storage'.traceBlobId = storage.traceBlobId
          /\ storage'.storedAt = storage.storedAt
          /\ UNCHANGED <<traceVars, traceSessionId, goal, startTime,
                         finalResult>> ]_vars

\* the task was stored, and then storing the trace failed and was degraded
C19_Witness ==
    /\ gracefulDegradation
    /\ lastOp.op = "storeTrace"
    /\ lastOp.walrus = "rejected"
    /\ ~lastOp.threw
    /\ storage.taskBlobId # Null
    /\ storage.traceBlobId = Null
    /\ Len(storage.errors) = 1
    /\ goal # Null

\* C20: a storeTask or storeTrace call throws to its caller exactly when its
\* store call fails and gracefulDegradation is disabled; with
\* gracefulDegradation enabled no such call throws.
C20_ThrowsIffNotDegrading ==
    [][ (StoreResolves \/ StoreRejects) =>
          /\ lastOp'.threw <=>
               (lastOp'.walrus = "rejected" /\ ~gracefulDegradation)
          /\ gracefulDegradation => ~lastOp'.threw ]_vars

\* storeTask threw, with gracefulDegradation disabled
C20_Witness ==
    /\ ~gracefulDegradation
    /\ lastOp.op = "storeTask"
    /\ lastOp.threw
    /\ lastOp.value.instanceofError
    /\ Len(storage.errors) = 1

\* the store calls a step begins, and a step that begins a storeTrace call
\* and no storeTask call
Triggered == inflight' (-) inflight
\* no call begun by the step: the calls in flight are those before it
BeginsNone == inflight' = inflight
StoresTrace ==
    /\ Triggered # EmptyBag
    /\ \A call \in BagToSet(Triggered) : call.type = "storeTrace"

\* C21 as stated: with autoStore enabled, every setState(COMPLETED),
\* setState(FAILED) and logError call begins a storeTrace call.
C21_EveryTerminalCallStores ==
    [][ autoStore =>
          /\ \A newState \in Terminal, store \in StoreOptions :
               PersistentSetState(newState, store) =>
                   BagCardinality(Triggered) >= 1
          /\ \A call \in LogErrorPool :
               PersistentLogError(call[1], call[2]) =>
                   BagCardinality(Triggered) >= 1 ]_vars

\* C21: with autoStore enabled, every setState(COMPLETED) and
\* setState(FAILED) call whose options do not set store to false, and every
\* logError call, begins a storeTrace call; setState(PLANNING),
\* setState(EXECUTING), setState with options.store false, logStep and
\* setGoal begin none; and with autoStore disabled no setState or logError
\* call begins a store call.
C21_AutoStoreCoupling ==
    [][ /\ \A newState \in StateArgs, store \in StoreOptions :
             \/ IF autoStore /\ store /\ newState \in Terminal
                THEN StoresTrace
                ELSE BeginsNone
             \/ ~PersistentSetState(newState, store)
        /\ \A call \in LogErrorPool :
             \/ IF autoStore THEN StoresTrace ELSE BeginsNone
             \/ ~PersistentLogError(call[1], call[2])
        /\ BeginsNone \/ ~(SetGoal \/ LogFirstStep) ]_vars

\* logError was called with autoStore enabled when no store call had been
\* made, and store calls are in flight
C21_Witness ==
    /\ autoStore
    /\ lastOp = Returned("logError")
    /\ state = "failed"
    /\ done = 0
    /\ inflight # EmptyBag

\* a storeTrace call gets its result from the store
TraceStored == StoreResolves /\ lastOp'.op = "storeTrace"

\* C22: isPersisted() is false when the logger is constructed and after a
\* reset, becomes true when a storeTrace call succeeds, and is changed by
\* nothing else: a storeTrace that fails makes it neither true nor false
\* again. So it is true exactly when some storeTrace call has succeeded since
\* construction or the last reset, which is when a trace blob id is recorded.
C22_PersistedIffTraceStored ==
    /\ [](isPersisted <=> storage.traceBlobId \in BlobIds)
    /\ [](done = 0 => ~isPersisted)
    /\ [][ /\ PersistentReset => ~isPersisted'
           /\ TraceStored => isPersisted'
           /\ StoreRejects => (isPersisted' <=> isPersisted)
           /\ (~PersistentReset /\ ~TraceStored) =>
                  (isPersisted' <=> isPersisted) ]_vars

\* a trace was stored, and a storeTrace call after it failed
C22_Witness ==
    /\ isPersisted
    /\ lastOp.op = "storeTrace"
    /\ lastOp.walrus = "rejected"
    /\ Len(storage.errors) = 1

\* C23: with gracefulDegradation enabled, every store call that fails,
\* whether storeTask or storeTrace was called directly or storeTrace was
\* called by setState, logError or setFinalResult, adds exactly one entry to
\* storage.errors and leaves the entries before it as they were; reset
\* empties storage.errors; and no other step changes it. So the length of
\* storage.errors is the number of store calls that failed since construction
\* or the last reset.
C23_ErrorsAppendOnly ==
    /\ [](done = 0 => storage.errors = <<>>)
    /\ [](Len(storage.errors) <= done)
    /\ [][ /\ (gracefulDegradation /\ StoreRejects) =>
                /\ Len(storage'.errors) = Len(storage.errors) + 1
                /\ Extends(storage'.errors, storage.errors)
                /\ storage'.errors[Len(storage'.errors)].type = lastOp'.op
           /\ PersistentReset => storage'.errors = <<>>
           /\ (~StoreRejects /\ ~PersistentReset) =>
                  storage'.errors = storage.errors ]_vars

\* logError was called with autoStore enabled, and the two storeTrace calls
\* it began have failed
C23_Witness ==
    /\ gracefulDegradation
    /\ autoStore
    /\ traceError # NoError
    /\ done = 2
    /\ Len(storage.errors) = 2
    /\ storage.errors[1].type = "storeTrace"
    /\ storage.errors[2].type = "storeTrace"

-----------------------------------------------------------------------------
(* JSON: the values a caller hands to store, JSON.stringify and JSON.parse. *)
(* A text is a sequence of one-character strings.                          *)

JNull == [t |-> "null"]
JUndefined == [t |-> "undefined"]
JBool(b) == [t |-> "bool", v |-> b]
JNum(n) == [t |-> "num", v |-> n]
JStr(s) == [t |-> "str", v |-> s]
JArr(xs) == [t |-> "arr", v |-> xs]
\* an object is the sequence of its properties, <<key, value>>, in
\* insertion order
JObj(ps) == [t |-> "obj", v |-> ps]

Digits == <<"0", "1", "2", "3", "4", "5", "6", "7", "8", "9">>

RECURSIVE Escape(_)
\* the characters of a string between its quotes: a quote and a backslash
\* are written after a backslash
Escape(s) ==
    IF s = <<>> THEN <<>>
    ELSE (IF Head(s) \in {"\"", "\\"} THEN <<"\\", Head(s)>> ELSE <<Head(s)>>)
         \o Escape(Tail(s))

Quote(s) == <<"\"">> \o Escape(s) \o <<"\"">>

RECURSIVE JSONstringify(_)
RECURSIVE StringifyElements(_)
RECURSIVE StringifyProperties(_)

\* the elements of an array, separated by commas
StringifyElements(xs) ==
    IF xs = <<>> THEN <<>>
    ELSE JSONstringify(Head(xs))
         \o (IF Tail(xs) = <<>> THEN <<>> ELSE <<",">>)
         \o StringifyElements(Tail(xs))

\* the properties of an object, "key":value, separated by commas
StringifyProperties(ps) ==
    IF ps = <<>> THEN <<>>
    ELSE Quote(Head(ps)[1]) \o <<":">> \o JSONstringify(Head(ps)[2])
         \o (IF Tail(ps) = <<>> THEN <<>> ELSE <<",">>)
         \o StringifyProperties(Tail(ps))

\* JSON.stringify(data), for data that is not undefined
JSONstringify(x) ==
    CASE x.t = "null" -> <<"n", "u", "l", "l">>
      [] x.t = "bool" -> IF x.v THEN <<"t", "r", "u", "e">>
                                ELSE <<"f", "a", "l", "s", "e">>
      [] x.t = "num"  -> <<Digits[x.v + 1]>>
      [] x.t = "str"  -> Quote(x.v)
      [] x.t = "arr"  -> <<"[">> \o StringifyElements(x.v) \o <<"]">>
      [] x.t = "obj"  -> <<"{">> \o StringifyProperties(x.v) \o <<"}">>

\* what a parser returns: a value and the position after it, or a failure
Parsed(val, next) == [ok |-> TRUE, val |-> val, next |-> next]
SyntaxError == [ok |-> FALSE]

At(txt, i) == IF i \in 1..Len(txt) THEN txt[i] ELSE "end"

\* the word w is at position i of the text
Literal(txt, i, w, val) ==
    IF i + Len(w) - 1 <= Len(txt) /\ SubSeq(txt, i, i + Len(w) - 1) = w
    THEN Parsed(val, i + Len(w))
    ELSE SyntaxError

RECURSIVE ParseString(_, _, _)
\* the characters of a string from position i to its closing quote
ParseString(txt, i, acc) ==
    CASE At(txt, i) = "end" -> SyntaxError
      [] At(txt, i) = "\"" -> Parsed(acc, i + 1)
      [] At(txt, i) = "\\" ->
            IF At(txt, i + 1) \in {"\"", "\\"}
            THEN ParseString(txt, i + 2, Append(acc, txt[i + 1]))
            ELSE SyntaxError
      [] OTHER -> ParseString(txt, i + 1, Append(acc, txt[i]))

RECURSIVE ParseValue(_, _)
RECURSIVE ParseElements(_, _, _)
RECURSIVE ParseProperties(_, _, _)

\* the elements of an array from position i to its closing bracket
ParseElements(txt, i, acc) ==
    LET x == ParseValue(txt, i) IN
    IF ~x.ok THEN SyntaxError
    ELSE CASE At(txt, x.next) = "]" ->
                 Parsed(JArr(Append(acc, x.val)), x.next + 1)
           [] At(txt, x.next) = "," ->
                 ParseElements(txt, x.next + 1, Append(acc, x.val))
           [] OTHER -> SyntaxError

\* the properties of an object from position i to its closing brace
ParseProperties(txt, i, acc) ==
    IF At(txt, i) # "\"" THEN SyntaxError
    ELSE LET k == ParseString(txt, i + 1, <<>>) IN
         IF ~k.ok \/ At(txt, k.next) # ":" THEN SyntaxError
         ELSE LET x == ParseValue(txt, k.next + 1) IN
              IF ~x.ok THEN SyntaxError
              ELSE CASE At(txt, x.next) = "}" ->
                           Parsed(JObj(Append(acc, <<k.val, x.val>>)),
                                  x.next + 1)
                     [] At(txt, x.next) = "," ->
                           ParseProperties(txt, x.next + 1,
                                           Append(acc, <<k.val, x.val>>))
                     [] OTHER -> SyntaxError

\* the value that starts at position i of the text
ParseValue(txt, i) ==
    LET c == At(txt, i) IN
    CASE c = "n" -> Literal(txt, i, <<"n", "u", "l", "l">>, JNull)
      [] c = "t" -> Literal(txt, i, <<"t", "r", "u", "e">>, JBool(TRUE))
      [] c = "f" -> Literal(txt, i, <<"f", "a", "l", "s", "e">>, JBool(FALSE))
      [] IsDigit(c) -> Parsed(JNum(DigitVal(c)), i + 1)
      [] c = "\"" ->
            LET s == ParseString(txt, i + 1, <<>>) IN
            IF s.ok THEN Parsed(JStr(s.val), s.next) ELSE SyntaxError
      [] c = "[" ->
            IF At(txt, i + 1) = "]" THEN Parsed(JArr(<<>>), i + 2)
            ELSE ParseElements(txt, i + 1, <<>>)
      [] c = "{" ->
            IF At(txt, i + 1) = "}" THEN Parsed(JObj(<<>>), i + 2)
            ELSE ParseProperties(txt, i + 1, <<>>)
      [] OTHER -> SyntaxError

\* JSON.parse(text): the value, if the whole text is one value
JSONparse(txt) ==
    LET x == ParseValue(txt, 1) IN
    IF x.ok /\ x.next = Len(txt) + 1 THEN Parsed(x.val, x.next)
    ELSE SyntaxError

\* the data handed to store: a number, strings (empty, of a digit, with a
\* quote in it, spelling null), a boolean, arrays and objects; and the two
\* values store refuses
DataPool ==
    { JNum(1),
      JStr(<<>>),
      JStr(<<"1">>),
      JStr(<<"a", "\"">>),
      JStr(<<"n", "u", "l", "l">>),
      JBool(TRUE),
      JArr(<<>>),
      JArr(<<JNum(0), JStr(<<"a">>)>>),
      JObj(<<>>),
      JObj(<< <<S_ab, JArr(<<JNull>>)>>, <<S_b, JBool(FALSE)>> >>) }
Refused == {JNull, JUndefined}

-----------------------------------------------------------------------------
(* WalrusClient: store, retrieve and exists, each running fetchWithRetry   *)
(* against a blob store that keeps the texts it is given                   *)

\* texts the blob store holds in the runs explored
MaxBlobs == 2

\* options.maxRetries and options.retryDelay handed to the constructor, 0
\* for none: <<maxRetries, retryDelay>>
WalrusOptions == { <<0, 0>>, <<1, 0>>, <<2, 500>> }

\* options.x || d
OrDefault(x, d) == IF x = 0 THEN d ELSE x

\* a text some other client put into the blob store: not JSON
RawText == <<"a">>

\* the blob id the store gives a text: one id for one text
BlobIdOf(text) == <<"#">> \o text

\* the arguments of retrieve and exists: the ids of the texts of the pools,
\* the empty string, and a value that is not a string
StringArg(s) == [isString |-> TRUE, s |-> s]
NotAString == [isString |-> FALSE]
BlobIdArgs ==
    { StringArg(BlobIdOf(JSONstringify(d))) : d \in DataPool }
        \cup { StringArg(BlobIdOf(RawText)), StringArg(<<>>), NotAString }

\* errors: the name and the message of an Error object
WalrusError(message) == [name |-> "Error", message |-> message]
FetchFailed == [name |-> "TypeError", message |-> [m |-> "fetch failed"]]
AbortError ==
    [name |-> "AbortError", message |-> [m |-> "This operation was aborted"]]
\* `HTTP ${response.status}: ${errorText}`
HttpError(status) == WalrusError([m |-> "HTTP", status |-> status])
\* `Request timeout after ${this.timeout}ms`
RequestTimeout == WalrusError([m |-> "Request timeout after", ms |-> DefaultTimeout])
\* `Request failed after ${this.maxRetries} attempts: ${lastError.message}`
RequestFailed(n, last) ==
    WalrusError([m |-> "Request failed after", attempts |-> n, last |-> last])
\* `Failed to store data to Walrus: ${error.message}` and the like
Wrapped(m, error) == WalrusError([m |-> m, inner |-> error.message])

\* how a call, or fetchWithRetry within it, ended
Thrown(error) == [ended |-> TRUE, threw |-> TRUE, error |-> error]
Resolved(value) == [ended |-> TRUE, threw |-> FALSE, value |-> value]

\* the status codes of the responses that are not ok
ErrorStatus == {500}
NotFoundStatus == 404

\* what the publisher may answer to a PUT of a text: the JSON of an ok
\* response, as response.json() gives it; NullBody for the JSON null and
\* NotJson for a body that is not JSON
NullBody == [isNull |-> TRUE]
NotJson == [notJson |-> TRUE]
PublisherAnswers(text) ==
    LET id == BlobIdOf(text) IN
    { [newlyCreated |-> [blobObject |-> [blobId |-> id]]],
      [newlyCreated |-> [blobObject |-> [id |-> id]]],
      [newlyCreated |-> [blobObject |-> EmptyObject]],
      [newlyCreated |-> EmptyObject],
      [alreadyCertified |-> [blobId |-> id]],
      [alreadyCertified |-> [blobObject |-> [blobId |-> id]]],
      [alreadyCertified |-> EmptyObject],
      [markedInvalid |-> [blobId |-> id]],
      [error |-> [message |-> S_b]],
      [error |-> EmptyObject],
      EmptyObject,
      NullBody,
      NotJson }

\* o[f] || null, with <<>> for null
Field(o, f) == IF f \in DOMAIN o THEN o[f] ELSE <<>>

\* the blob id looked for in the object itself
Nested_Flat(o, f) == Field(o, f)

\* o.blobObject?.[f] || null
Nested(o, f) ==
    IF "blobObject" \in DOMAIN o THEN Field(o.blobObject, f) ELSE <<>>
Or(a, b) == IF a # <<>> THEN a ELSE b

\* store(data) after fetchWithRetry returned a response with this JSON
Classify(result, text) ==
    CASE result = NotJson ->
            Thrown(WalrusError([m |-> "Unexpected token"]))
      [] result = NullBody ->
            Thrown([name |-> "TypeError",
                    message |-> [m |-> "Cannot read properties of null"]])
      [] OTHER ->
         LET blobId ==
               IF "newlyCreated" \in DOMAIN result
               THEN Or(Nested(result.newlyCreated, "blobId"),
                       Nested(result.newlyCreated, "id"))
               ELSE IF "alreadyCertified" \in DOMAIN result
               THEN Or(Field(result.alreadyCertified, "blobId"),
                       Nested(result.alreadyCertified, "blobId"))
               ELSE <<>>
         IN
         IF /\ "newlyCreated" \notin DOMAIN result
            /\ "alreadyCertified" \notin DOMAIN result
            /\ "markedInvalid" \in DOMAIN result
         THEN Thrown(WalrusError([m |-> "Blob marked as invalid by Walrus"]))
         ELSE IF /\ "newlyCreated" \notin DOMAIN result
                 /\ "alreadyCertified" \notin DOMAIN result
                 /\ "error" \in DOMAIN result
         THEN Thrown(WalrusError([m |-> "Walrus API error",
                                  of |-> Or(Field(result.error, "message"),
                                            JSONstringify(JObj(<<>>)))]))
         ELSE IF blobId = <<>>
         THEN Thrown(WalrusError(
                  [m |-> "Could not extract blob ID from Walrus response"]))
         ELSE Resolved([success |-> TRUE, blobId |-> blobId,
                        size |-> Len(text)])

\* retrieve without JSON.parse: the data is the text
Parse_AsText(text) == JStr(text)

\* retrieve(blobId) after fetchWithRetry returned a response with this text
Parse(text) ==
    LET p == JSONparse(text) IN IF p.ok THEN p.val ELSE JStr(text)
Retrieved(blobId, text) ==
    Resolved([success |-> TRUE, blobId |-> blobId, data |-> Parse(text),
              size |-> Len(text)])

\* the catch block of store and of retrieve, and exists around retrieve
StoreCaught(out) ==
    IF out.threw THEN Thrown(Wrapped("Failed to store data to Walrus", out.error))
    ELSE out
RetrieveCaught(out) ==
    IF out.threw
    THEN Thrown(Wrapped("Failed to retrieve data from Walrus", out.error))
    ELSE out

\* exists without its catch block
ExistsOf_Rethrows(out) == IF out.threw THEN out ELSE Resolved(TRUE)

\* exists(blobId), of the way its retrieve ended
ExistsOf(out) == Resolved(~out.threw)

\* the text sent by the call, and the text the blob store holds under the
\* id the call asks for (a set: empty when it holds none)
Body == JSONstringify(wCall.data)
Held == {text \in blobs : BlobIdOf(text) = wCall.blobId.s}

\* a method is called when no other call is running
WalrusReady == wPc \in {"idle", "done"}

\* the first request of fetchWithRetry goes out
FirstFetch ==
    /\ wPc' = "fetch"
    /\ wAttempt' = 1
    /\ wRequests' = 1
    /\ wLastError' = NoLastError
    /\ wWaits' = <<>>
    /\ wFetch' = NoOutcome
    /\ wResult' = NoOutcome

\* the call ends before any request is made
EndsAtOnce(out) ==
    /\ wPc' = "done"
    /\ wAttempt' = 0
    /\ wRequests' = 0
    /\ wLastError' = NoLastError
    /\ wWaits' = <<>>
    /\ wFetch' = NoOutcome
    /\ wResult' = out

WalrusFrame == UNCHANGED <<resolveVars, execVars, wMaxRetries, wRetryDelay>>

\* store(data) up to its first await
Store ==
    /\ WalrusReady
    /\ \E data \in DataPool \cup Refused :
         /\ wCall' = [op |-> "store", data |-> data]
         /\ IF data \in Refused
            THEN EndsAtOnce(Thrown(WalrusError(
                     [m |-> "Cannot store undefined or null data"])))
            ELSE /\ JSONstringify(data) \in blobs \/ Cardinality(blobs) < MaxBlobs
                 /\ FirstFetch
    /\ UNCHANGED blobs
    /\ WalrusFrame

\* !blobId || typeof blobId !== 'string'
InvalidBlobId(blobId) == ~blobId.isString \/ blobId.s = <<>>
InvalidBlobIdError == WalrusError([m |-> "Invalid blob ID"])

\* retrieve(blobId) up to its first await
Retrieve ==
    /\ WalrusReady
    /\ \E blobId \in BlobIdArgs :
         /\ wCall' = [op |-> "retrieve", blobId |-> blobId]
         /\ IF InvalidBlobId(blobId)
            THEN EndsAtOnce(Thrown(InvalidBlobIdError))
            ELSE FirstFetch
    /\ UNCHANGED blobs
    /\ WalrusFrame

\* exists(blobId) up to its first await
Exists ==
    /\ WalrusReady
    /\ \E blobId \in BlobIdArgs :
         /\ wCall' = [op |-> "exists", blobId |-> blobId]
         /\ IF InvalidBlobId(blobId)
            THEN EndsAtOnce(ExistsOf(Thrown(InvalidBlobIdError)))
            ELSE FirstFetch
    /\ UNCHANGED blobs
    /\ WalrusFrame

\* what the method makes of the way fetchWithRetry ended; text is the body
\* of the response when it returned one
Ends(out, answer) ==
    CASE wCall.op = "store" ->
            StoreCaught(IF out.threw THEN out ELSE Classify(answer, Body))
      [] wCall.op = "retrieve" ->
            RetrieveCaught(IF out.threw THEN out
                           ELSE Retrieved(wCall.blobId.s, answer))
      [] wCall.op = "exists" ->
            ExistsOf(RetrieveCaught(IF out.threw THEN out
                                    ELSE Retrieved(wCall.blobId.s, answer)))

\* fetchWithRetry ends, and the method with it
FetchEnds(out, answer) ==
    /\ wPc' = "done"
    /\ wFetch' = out
    /\ wResult' = Ends(out, answer)

\* fetchWithRetry returns the ok response of the request of this attempt,
\* with its body: what response.json() or response.text() will give
Response(body) ==
    Resolved([ok |-> TRUE, attempt |-> wAttempt, body |-> body])

\* the request is answered with an ok response: fetchWithRetry returns it
FetchReturns ==
    /\ wPc = "fetch"
    /\ IF wCall.op = "store"
       THEN \E answer \in PublisherAnswers(Body) :
              /\ FetchEnds(Response(answer), answer)
              /\ blobs' = IF ~Ends(Response(answer), answer).threw
                          THEN blobs \cup {Body} ELSE blobs
       ELSE \E text \in Held :
              /\ FetchEnds(Response(text), text)
              /\ UNCHANGED blobs
    /\ UNCHANGED <<wCall, wAttempt, wLastError, wWaits, wRequests>>
    /\ WalrusFrame

\* the errors an attempt may end with: a response that is not ok (not found,
\* when the blob store does not hold the id), a failed request, and the abort
\* by the timeout
AttemptErrors ==
    {HttpError(status) : status \in ErrorStatus}
        \cup (IF wCall.op # "store" /\ Held = {}
              THEN {HttpError(NotFoundStatus)} ELSE {})
        \cup {FetchFailed, AbortError}

\* the delay with the exponent one higher
Backoff_FromTwo(k) == wRetryDelay * 2^k

\* this.retryDelay * Math.pow(2, attempt - 1), at attempt k
Backoff(k) == wRetryDelay * 2^(k - 1)

\* the test of the abort left out: a timeout is retried like another error
IsTimeout_Never(error) == FALSE

\* error.name === 'AbortError'
IsTimeout(error) == error.name = "AbortError"

\* the loop that makes one attempt more
LastAttempt_OneMore == wAttempt > wMaxRetries

\* attempt < this.maxRetries is false
LastAttempt == wAttempt >= wMaxRetries

\* the catch block of fetchWithRetry, and the end of the loop after it
FetchFails ==
    /\ wPc = "fetch"
    /\ \E error \in AttemptErrors :
         /\ wLastError' = error
         /\ IF IsTimeout(error)
            THEN /\ FetchEnds(Thrown(RequestTimeout), <<>>)
                 /\ UNCHANGED wWaits
            ELSE IF ~LastAttempt
            THEN /\ wWaits' = Append(wWaits, Backoff(wAttempt))
                 /\ wPc' = "sleep"
                 /\ UNCHANGED <<wFetch, wResult>>
            ELSE /\ FetchEnds(Thrown(RequestFailed(wMaxRetries, error.message)),
                              <<>>)
                 /\ UNCHANGED wWaits
    /\ UNCHANGED <<wCall, wAttempt, wRequests, blobs>>
    /\ WalrusFrame

\* the sleep is over: the next attempt, and its request
SleepOver ==
    /\ wPc = "sleep"
    /\ wPc' = "fetch"
    /\ wAttempt' = wAttempt + 1
    /\ wRequests' = wRequests + 1
    /\ UNCHANGED <<wCall, wLastError, wWaits, wFetch, wResult, blobs>>
    /\ WalrusFrame

InitWalrus ==
    /\ fPc = "idle"
    /\ fSelector = <<>>
    /\ fSnapshot = <<>>
    /\ fResult = NotFound
    /\ ExecIdle
    /\ LoggerIdle
    /\ \E options \in WalrusOptions :
         WalrusConstructed(OrDefault(options[1], DefaultWalrusRetries),
                           OrDefault(options[2], DefaultRetryDelay),
                           {RawText})

NextWalrus ==
    \/ Store
    \/ Retrieve
    \/ Exists
    \/ FetchReturns
    \/ FetchFails
    \/ SleepOver

SpecWalrus == InitWalrus /\ [][NextWalrus]_vars


-----------------------------------------------------------------------------
(* Claims about WalrusClient                                               *)

\* fetchWithRetry returned a response / threw
FetchReturned == wFetch.ended /\ ~wFetch.threw
FetchThrew == wFetch.ended /\ wFetch.threw

\* what is left to do of a fetchWithRetry under way: the attempts not yet
\* made, counted twice, and the request not yet answered
Remaining ==
    2 * (wMaxRetries - wAttempt) + (IF wPc = "fetch" THEN 1 ELSE 0)
Underway == wPc \in {"fetch", "sleep"}

\* C24: every fetchWithRetry ends (while it is under way a step can be
\* taken, and every step ends it or leaves less to do), after at most
\* maxRetries requests; it
\* returns the first ok response, the one of the last request made, every
\* request before it having failed and been waited after, and makes no
\* request more; and when it throws with a last failure that is no timeout,
\* maxRetries requests were made and the error carries maxRetries and the
\* message of the last failure
C24_AtMostMaxRetries ==
    /\ [](/\ wRequests <= wMaxRetries
          /\ wAttempt = wRequests
          /\ FetchReturned =>
               /\ wFetch.value.attempt = wRequests
               /\ Len(wWaits) = wRequests - 1
               /\ wPc = "done"
          /\ FetchThrew /\ ~IsTimeout(wLastError) =>
               /\ wRequests = wMaxRetries
               /\ wFetch.error = RequestFailed(wMaxRetries, wLastError.message)
               /\ wPc = "done")
    /\ [](Underway => ENABLED (FetchFails \/ SleepOver))
    /\ [][Underway => ~Underway' \/ Remaining' < Remaining]_vars

\* three requests failed, the last with the HTTP status 500, and the error
\* of fetchWithRetry says so
C24_Witness ==
    /\ wRequests = 3
    /\ wMaxRetries = 3
    /\ FetchThrew
    /\ wFetch.error = RequestFailed(3, HttpError(500).message)

\* C25: once a request of fetchWithRetry was aborted by the timeout, whatever
\* its number, fetchWithRetry has thrown the timeout error, nothing is under
\* way any more, and no wait was added for the aborted request (the waits
\* are those after the requests before it)
C25_TimeoutFailsFast ==
    wLastError = AbortError =>
        /\ FetchThrew
        /\ wFetch.error = RequestTimeout
        /\ ~Underway
        /\ Len(wWaits) = wRequests - 1

\* the second of three requests was aborted
C25_Witness ==
    /\ wLastError = AbortError
    /\ wMaxRetries = 3
    /\ wRequests = 2
    /\ wFetch = Thrown(RequestTimeout)

StoreAnswered == wCall.op = "store" /\ FetchReturned
Answer == wFetch.value.body

\* the answers that carry the blob id where store looks for it
WithBlobId(id) ==
    { [newlyCreated |-> [blobObject |-> [blobId |-> id]]],
      [newlyCreated |-> [blobObject |-> [id |-> id]]],
      [alreadyCertified |-> [blobId |-> id]],
      [alreadyCertified |-> [blobObject |-> [blobId |-> id]]] }

\* C27: when store got an ok response, no request follows it (the requests
\* made are those up to the one answered, and nothing is under way); when
\* the answer is newlyCreated with the blob id in its blobObject, or
\* alreadyCertified with the blob id in it or in its blobObject, store
\* returns that blob id; on every other answer (markedInvalid, error, no
\* blob id to be found, no JSON) store throws its own error
C27_StoreClassifies ==
    StoreAnswered =>
        /\ ~Underway
        /\ wRequests = wFetch.value.attempt
        /\ IF Answer \in WithBlobId(BlobIdOf(Body))
           THEN /\ ~wResult.threw
                /\ wResult.value.success
                /\ wResult.value.blobId = BlobIdOf(Body)
           ELSE /\ wResult.threw
                /\ wResult.error.message.m = "Failed to store data to Walrus"

\* the first request of a store was answered markedInvalid: store threw
\* without a second request
C27_Witness ==
    /\ StoreAnswered
    /\ "markedInvalid" \in DOMAIN Answer
    /\ wRequests = 1
    /\ wMaxRetries = 3
    /\ wResult.threw

\* a call of this method returned
Gave(op) == wCall.op = op /\ wResult.ended /\ ~wResult.threw

\* store(data) succeeded at some time before: the blob store holds the text
\* of data, which only a store that succeeded puts there
StoredBefore(data) == JSONstringify(data) \in blobs \ {RawText}

\* the blob id store(data) returns
StoreBlobId(data) == BlobIdOf(JSONstringify(data))

\* C28: for every data of the pool of JSON values (numbers, strings with
\* quotes in them and strings that read like JSON, booleans, arrays and
\* objects, empty and nested), when store(data) has succeeded and a retrieve
\* of the blob id it returned succeeds, the data of the result of retrieve
\* is data
C28_RoundTrip ==
    \A data \in DataPool :
        ( /\ StoredBefore(data)
          /\ Gave("retrieve")
          /\ wCall.blobId = StringArg(StoreBlobId(data)) ) =>
            wResult.value.data = data

\* an object with properties was stored and retrieved
C28_Witness ==
    /\ Gave("retrieve")
    /\ wResult.value.data.t = "obj"
    /\ wResult.value.data.v # <<>>
    /\ StoredBefore(wResult.value.data)
    /\ wCall.blobId = StringArg(StoreBlobId(wResult.value.data))

\* the retrieve of the call, made by it or by exists for it, succeeds: the
\* blob id is a string that is not empty and fetchWithRetry returned a
\* response
RetrieveSucceeds ==
    /\ wCall.blobId.isString
    /\ wCall.blobId.s # <<>>
    /\ FetchReturned

\* C29: a retrieve that ended has thrown unless it succeeds, and an exists
\* that ended has not thrown, whatever the blob id (no string and the empty
\* string among them) and however its retrieve ended (a response, the
\* retries used up, a timeout): it has returned true when the retrieve
\* succeeds and false when it does not
C29_ExistsNeverThrows ==
    /\ wCall.op = "retrieve" /\ wResult.ended =>
         (wResult.threw <=> ~RetrieveSucceeds)
    /\ wCall.op = "exists" /\ wResult.ended =>
         /\ ~wResult.threw
         /\ wResult.value \in BOOLEAN
         /\ wResult.value <=> RetrieveSucceeds

\* the request of an exists was aborted by the timeout: exists returned false
C29_Witness ==
    /\ wCall.op = "exists"
    /\ wLastError = AbortError
    /\ wResult = Resolved(FALSE)

-----------------------------------------------------------------------------
(* A session: a run that begins with a navigate step, and ActionExecutor   *)
(* close after it                                                          *)

\* the other answers of the browser tool to a navigate call: another target,
\* a tab id in place of the target id, ok with no id at all, and no status
OtherAnswers ==
    { [status |-> "ok", targetId |-> "t2"],
      [status |-> "ok", tabId |-> "tab1"],
      [status |-> "ok"],
      EmptyObject }

NavigateOther ==
    /\ \E result \in OtherAnswers : NavigateGot(result)
    /\ UNCHANGED bridgeVars

SessionFrame ==
    UNCHANGED <<resolveVars, walrusVars, bridgeVars, recVars, cfgVars, extracted, seqVars, loopVars,
                formVars, stepVars, traceVars>>

\* clearContext()
clearContext == execContext' = EmptyObject

\* no call on the executor or on the browser is running
AtRest == {"returned", "closed", "close_thrown", "start_returned",
           "start_thrown"}

\* BrowserController.start called by itself, up to its await, and to its end
\* when the browser is started already
SessionStart ==
    /\ pc \in AtRest
    /\ pc' = IF isStarted THEN "start_returned" ELSE "start_call"
    /\ UNCHANGED <<brVars, err, execContext>>
    /\ SessionFrame

\* the start call of BrowserController.start answers
SessionStartResult ==
    /\ pc = "start_call"
    /\ \E ok \in BOOLEAN :
         IF ok
         THEN isStarted' = TRUE /\ pc' = "start_returned" /\ err' = err
         ELSE /\ isStarted' = isStarted
              /\ pc' = "start_thrown"
              /\ err' = Err("browser_start_failed")
    /\ UNCHANGED <<currentTab, execContext>>
    /\ SessionFrame

\* ActionExecutor.close: BrowserController.close up to its await, and to
\* its end, and clearContext, when the browser was not started
ExecutorClose ==
    /\ pc \in AtRest
    /\ IF isStarted
       THEN pc' = "stop" /\ execContext' = execContext
       ELSE pc' = "closed" /\ clearContext
    /\ UNCHANGED <<brVars, err>>
    /\ SessionFrame

\* the stop call answers, with whatever status, and the executor clears its
\* context, or the call fails
StopAnswers == {"ok", "error", "rejects"}
StopResult ==
    /\ pc = "stop"
    /\ \E answer \in StopAnswers :
         IF answer # "rejects"
         THEN /\ isStarted' = FALSE
              /\ currentTab' = Null
              /\ clearContext
              /\ pc' = "closed"
              /\ err' = err
         ELSE /\ UNCHANGED <<brVars, execContext>>
              /\ pc' = "close_thrown"
              /\ err' = Err("browser_close_failed")
    /\ SessionFrame

\* as many steps as a run may have, the first a navigate step
InitSession ==
    /\ Init
    /\ Len(steps) = MaxSteps
    /\ HasTruthyType(steps[1])
    /\ steps[1].type = "navigate"

NextSession ==
    \/ Next
    \/ SessionStart
    \/ SessionStartResult
    \/ NavigateOther
    \/ ExecutorClose
    \/ StopResult

SpecSession == InitSession /\ [][NextSession]_vars

(***************************************************************************)
(* Runs of extract steps, with setContext and clearContext called between   *)
(***************************************************************************)

S_k == <<"k">>

\* the steps of these runs
ExtractPool ==
    { [type |-> "navigate", params |-> [url |-> S_url]],
      [type |-> "extract"],
      [type |-> "extract", params |-> [selector |-> S_ab]],
      [type |-> "extract",
       params |-> [selector |-> S_ab, attribute |-> "href"]],
      [type |-> "extract", params |-> [selectors |-> <<S_ab, S_e>>]],
      [type |-> "extract",
       params |-> [selectors |-> <<S_e, S_ab>>, attribute |-> "href"]],
      [type |-> "extract",
       params |-> [selectors |-> <<S_aria_b, S_toString>>]] }

ExtractLists == UNION {[1..n -> ExtractPool] : n \in 1..MaxSteps}

\* element descriptors that hold some of value, text, name and href, one of
\* them empty
ExtractDescriptors ==
    { [name |-> S_ab],
      [label |-> S_ab],
      [name |-> S_ab, value |-> S_B, text |-> S_aB],
      [label |-> S_ab, value |-> S_B, href |-> S_1],
      [text |-> S_ab, name |-> S_e, href |-> <<>>],
      [name |-> S_ab, value |-> <<>>, text |-> <<>>] }

\* the elements objects the snapshot call of an extract step may return
ExtractSnaps ==
    {<<>>}
        \cup {<<[key |-> S_e, elem |-> d]>> : d \in ExtractDescriptors}
        \cup {<<[key |-> S_e, elem |-> [name |-> S_b, text |-> S_B]],
               [key |-> S_1, elem |-> d]>> : d \in ExtractDescriptors}

\* the snapshot call of an extract step answers
ExtractSnapshotResult ==
    \E ok \in BOOLEAN, s \in ExtractSnaps : PlainSnapshotGot(ok, s)

ContextFrame ==
    UNCHANGED <<resolveVars, walrusVars, bridgeVars, recVars, cfgVars, extracted, pc, seqVars, err,
                brVars, loopVars, formVars, stepVars, traceVars>>

\* setContext(key, value)
setContext(key, value) ==
    /\ execContext' = Assigned(execContext, key, value)
    /\ ContextFrame

\* setContext is called between two steps, or after the run
SetContext ==
    /\ pc \in {"loop", "returned"}
    /\ \E key \in {S_k, S_ab} : setContext(key, Str(S_1))

\* clearContext is called between two steps, or after the run
ClearContext ==
    /\ pc \in {"loop", "returned"}
    /\ clearContext
    /\ ContextFrame

InitExtract ==
    /\ InitOf(ExtractLists)
    /\ maxRetries = DefaultMaxRetries

NextExtract ==
    \/ NextStep
    \/ ReturnSummary
    \/ ExecNavigate
    \/ StartResult
    \/ NavigateResult
    \/ ExecExtract
    \/ ExtractSnapshotResult
    \/ StepSuccess
    \/ StepCatch
    \/ SetContext
    \/ ClearContext

SpecExtract == InitExtract /\ [][NextExtract]_vars

(***************************************************************************)
(* The browser() bridge under the start and navigate calls of a session    *)
(***************************************************************************)

\* the steps of these runs
BridgePool ==
    { [type |-> "navigate", params |-> [url |-> S_url]],
      [type |-> "navigate", params |-> [url |-> S_url],
       continueOnError |-> TRUE] }

BridgeLists == UNION {[1..n -> BridgePool] : n \in 1..MaxSteps}

\* 'mock_tab_' + Date.now()
MockTab == "mock_tab"

\* a mock that answers every action as the unknown one
MockResponse_Unknown(action) == [status |-> "error"]

\* the switch of browser(): the mock response for the action, with the
\* fields BrowserController reads
MockResponse(action) ==
    CASE action = "start" -> [status |-> "ok"]
      [] action = "stop" -> [status |-> "ok"]
      [] action = "navigate" -> [status |-> "ok", targetId |-> MockTab]
      [] action = "snapshot" -> [status |-> "ok"]
      [] action = "act" -> [status |-> "ok"]
      [] OTHER -> [status |-> "error"]

BridgeFrame ==
    UNCHANGED <<resolveVars, walrusVars, recVars, cfgVars, ctxVars, pc, seqVars, err,
                brVars, loopVars, formVars, stepVars, traceVars>>

\* initBrowserTool(browserFn), before the run
InitBrowserTool ==
    /\ pc = "loop"
    /\ idx = 0
    /\ ~browserTool
    /\ browserTool' = TRUE
    /\ globalTool' = TRUE
    /\ bStage' = bStage
    /\ BridgeFrame

\* the agent environment sets globalThis._openclawBrowserTool, before the run
SetGlobalTool ==
    /\ pc = "loop"
    /\ idx = 0
    /\ ~globalTool
    /\ globalTool' = TRUE
    /\ UNCHANGED <<browserTool, bStage>>
    /\ BridgeFrame

\* a browser() call is out: params.action
Requested == pc \in {"start", "navigate"}

\* what an injected function may answer to the call that is out
ToolAnswers == IF pc = "start" THEN StartAnswers ELSE NavigateAnswers

\* browser() returns this result to the session, which goes on with it
BridgeReturns(result) ==
    /\ \/ StartReturns(result)
       \/ NavigateGot(result)
    /\ bStage' = "tool"
    /\ UNCHANGED <<browserTool, globalTool>>

\* the injected function threw, or there is none: browser() goes on to stage
BridgeGoesOn(stage) ==
    /\ bStage' = stage
    /\ UNCHANGED <<browserTool, globalTool>>
    /\ BridgeFrame

\* if (browserTool) try { return await browserTool(params) } catch { }
BridgeTool ==
    /\ Requested
    /\ bStage = "tool"
    /\ IF browserTool
       THEN \/ \E result \in ToolAnswers : BridgeReturns(result)
            \/ BridgeGoesOn("global")
       ELSE BridgeGoesOn("global")

\* if (globalThis._openclawBrowserTool) try { return await ...(params) }
\* catch { }
BridgeGlobal ==
    /\ Requested
    /\ bStage = "global"
    /\ IF globalTool
       THEN \/ \E result \in ToolAnswers : BridgeReturns(result)
            \/ BridgeGoesOn("mock")
       ELSE BridgeGoesOn("mock")

\* the switch on params.action
BridgeMock ==
    /\ Requested
    /\ bStage = "mock"
    /\ BridgeReturns(MockResponse(pc))

InitBridge ==
    /\ InitOf(BridgeLists)
    /\ maxRetries = DefaultMaxRetries

NextBridge ==
    \/ InitBrowserTool
    \/ SetGlobalTool
    \/ NextStep
    \/ ReturnSummary
    \/ ExecNavigate
    \/ BridgeTool
    \/ BridgeGlobal
    \/ BridgeMock
    \/ StepSuccess
    \/ StepCatch

SpecBridge == InitBridge /\ [][NextBridge]_vars

-----------------------------------------------------------------------------
(* Claims about the session's target                                       *)

\* the navigate call answers ok with this result
Navigated(result) == StatusOk(result) /\ NavigateGot(result)
AnyAnswer == NavigateAnswers \cup OtherAnswers

\* the stop call answers
Stopped == StopResult /\ pc' = "closed"

\* C30: in a session currentTab changes only when a navigate call answers
\* ok, and is then the target id of the answer when it has one, and when
\* the stop call answers, and is then null; a navigate call that fails
\* leaves it as it was, and so does every other step of the executor and of
\* the controller (snapshot, click, type, wait and the rest)
C30_TargetChangesOnlyByNavigateAndStop ==
    /\ [][currentTab' # currentTab =>
            \/ \E result \in AnyAnswer : Navigated(result)
            \/ Stopped]_vars
    /\ [][\A result \in AnyAnswer :
            /\ Navigated(result) /\ "targetId" \in DOMAIN result =>
                 currentTab' = result.targetId
            /\ NavigateGot(result) /\ ~StatusOk(result) =>
                 currentTab' = currentTab]_vars
    /\ [][Stopped => currentTab' = Null]_vars

\* the first navigate set the target t2, and the navigate after it failed
C30_Witness ==
    /\ currentTab = "t2"
    /\ idx = 2
    /\ pc = "catch"
    /\ err = Err("navigation_error")

-----------------------------------------------------------------------------
(* Claims about the end of a trace                                         *)

\* C35: trace.endTime is not null whenever the state is COMPLETED or FAILED;
\* it is null when the logger is constructed and after every reset, which
\* leaves the state PLANNING, and it goes from null to a time only in a step
\* that enters COMPLETED or FAILED: so it is null as long as neither was
\* entered since construction or the last reset
C35_EndTimeNullUntilTerminal ==
    /\ [](state \in Terminal => endTime # NoTime)
    /\ [](lastOp.op = "none" => endTime = NoTime /\ state = "planning")
    /\ [][ /\ Reset => endTime' = NoTime /\ state' = "planning"
           /\ (endTime = NoTime /\ endTime' # NoTime) => state' \in Terminal
       ]_vars

\* after a reset at a later time the logger is executing, and the trace has
\* no endTime
C35_Witness ==
    /\ startTime > 1
    /\ state = "executing"
    /\ lastOp = SetStateEnded("executing", FALSE)
    /\ endTime = NoTime

-----------------------------------------------------------------------------
(* Claims about the store calls of PersistentLogger                        *)

\* C36 as stated: with autoStore enabled, a logError call begins exactly one
\* storeTrace call. (It begins two: ExecutionLogger.logError calls
\* this.setState(FAILED), which is PersistentLogger.setState and stores the
\* trace, and PersistentLogger.logError then stores it again; each of the
\* two appends its own entry to storage.errors when it fails.)
C36_LogErrorStoresOnce ==
    [][ \A call \in LogErrorPool :
          \/ ~autoStore
          \/ BagCardinality(Triggered) = 1
          \/ ~PersistentLogError(call[1], call[2]) ]_vars

(***************************************************************************)
(* Claims about reset and the calls in flight                              *)
(***************************************************************************)

\* a call of the bag ends in this step
EndsCall(call) ==
    /\ call \in DOMAIN inflight
    /\ inflight' = inflight (-) SetToBag({call})

\* C37: after reset() the storage record stays empty, and isPersisted() false,
\* until a store call issued after that reset ends; a store call that was in
\* flight when reset ran writes neither its blob id nor its error into the
\* new record.
C37_ResetIsolatesStorage ==
    [][ /\ \/ storage' = storage
           \/ \A call \in DOMAIN inflight : IsStale(call) => ~EndsCall(call)
        /\ \/ storage # EmptyStorage
           \/ storage' = EmptyStorage /\ ~isPersisted'
           \/ \E call \in DOMAIN inflight : ~IsStale(call) /\ EndsCall(call)
      ]_vars

\* a store call has ended in failure, its error recorded
FailedStore ==
    /\ lastOp.op \in {"storeTask", "storeTrace"}
    /\ lastOp.walrus = "rejected"

\* C39: in every reachable state storage.taskId is null exactly when
\* storage.taskBlobId is null, and storage.storedAt is null exactly when
\* storage.traceBlobId is null: a store call that fails sets neither field of
\* its pair, and reset clears both.
C39_PairsSetTogether ==
    /\ [](/\ storage.taskId = Null <=> storage.taskBlobId = Null
          /\ storage.storedAt = NoTime <=> storage.traceBlobId = Null)
    /\ [][ FailedStore' =>
             /\ storage'.taskId = storage.taskId
             /\ storage'.taskBlobId = storage.taskBlobId
             /\ storage'.traceBlobId = storage.traceBlobId
             /\ storage'.storedAt = storage.storedAt ]_vars

\* a task was stored, and then a store call failed: one pair is set, the
\* other is not, and the error is in the record
C39_Witness ==
    /\ FailedStore
    /\ storage.taskBlobId # Null
    /\ storage.taskId # Null
    /\ storage.traceBlobId = Null
    /\ storage.storedAt = NoTime
    /\ storage.errors # <<>>

(***************************************************************************)
(* Claims about the recorder of a failed step                              *)
(***************************************************************************)

\* executeStep returns a result of success false
ReturnsFailure ==
    /\ pc = "catch"
    /\ Len(results') = Len(results) + 1
    /\ ~results'[Len(results')].success

\* C38: whenever executeStep returns a result of success false and a recorder
\* is attached, the recorder is left in state failed with trace.error.message
\* equal to the error of the result, whether or not the step has
\* continueOnError; so when executeSteps has returned, the recorder is failed
\* exactly when a step that ran failed, also in a summary that is completed.
C38_FailedStepFailsRecorder ==
    /\ [][ (hasLogger /\ ReturnsFailure) =>
             /\ state' = "failed"
             /\ traceError'.message = results'[Len(results')].error ]_vars
    /\ [](hasLogger /\ summary.returned =>
            (state = "failed" <=> summary.failed > 0))

\* a step with continueOnError failed: the summary is completed, the recorder
\* failed
C38_Witness ==
    /\ hasLogger
    /\ summary.returned
    /\ summary.completed
    /\ summary.failed > 0
    /\ summary.successful > 0
    /\ state = "failed"
    /\ traceError.message = summary.results[1].error

(***************************************************************************)
(* Claims about the validation of step parameters                          *)
(***************************************************************************)

\* the step has no such parameter: it has no params, or params has it not
Without(step, field) == ~HasParams(step) \/ ~Truthy(step.params, field)

\* a step that lacks a parameter its kind requires
LacksRequired(step) ==
    \/ step.type = "navigate" /\ Without(step, "url")
    \/ step.type \in {"click", "type", "select", "submit"}
         /\ Without(step, "selector")
    \/ step.type = "type"
         /\ (~HasParams(step) \/ "text" \notin DOMAIN step.params)
    \/ step.type = "fill_form"
         /\ (~HasParams(step) \/ "fields" \notin DOMAIN step.params)

\* a wait step with no duration
WaitWithoutDuration(step) ==
    /\ step.type = "wait"
    /\ ~HasParams(step) \/ "duration" \notin DOMAIN step.params

\* executeStep hands the step to the handler of its kind
Dispatched == pc = "executeStep" /\ HasTruthyType(CurrentStep)

\* C34: the parameters are validated before the page is touched: a navigate
\* step without url, a click, type, select or submit step without selector, a
\* type step without text and a fill_form step without fields go to the error
\* result with no operation of the browser session begun (no start, navigate,
\* snapshot or act), and a wait step with no duration waits 1000 ms, the
\* default, and succeeds.
C34_ValidationBeforeInteraction ==
    [][ Dispatched =>
          /\ LacksRequired(CurrentStep) =>
               /\ pc' = "catch"
               /\ attempts' = attempts
               /\ UNCHANGED brVars
          /\ WaitWithoutDuration(CurrentStep) =>
               /\ pc' = "wait"
               /\ waits' = <<DefaultWait>> ]_vars

(***************************************************************************)
(* Claims about extract steps                                              *)
(***************************************************************************)

\* extractData has returned in the step that is running
ExtractReturned == pc = "success" /\ extracted.returned

\* the selector resolved to an element the snapshot holds
Matched(selector) ==
    /\ findElement(selector, snapshot).found
    /\ ElementAt(snapshot, findElement(selector, snapshot).ref).defined

\* the element the selector resolved to
MatchedData(selector) ==
    ElementAt(snapshot, findElement(selector, snapshot).ref).data

\* the element has the field, and it is not empty
Present(elemData, f) == f \in DOMAIN elemData /\ elemData[f] # <<>>

\* the fields in the order claimed: the attribute if one is specified, then
\* value, text, name
ClaimedOrder(params) ==
    (IF HasAttribute(params) THEN <<params.attribute>> ELSE <<>>)
        \o <<"value", "text", "name">>

\* the first field of the sequence that is present on the element
RECURSIVE FirstPresent(_, _)
FirstPresent(elemData, fs) ==
    IF Present(elemData, Head(fs)) THEN Head(fs)
    ELSE FirstPresent(elemData, Tail(fs))

\* C32 as stated: the value extracted for a matched element is the first
\* present of the attribute if specified, value, text, name, in the
\* single-selector and in the batch form.
C32_AttributeValueTextName ==
    ExtractReturned =>
        \A k \in DOMAIN extracted.data :
            LET e  == MatchedData(k)
                fs == ClaimedOrder(Params)
            IN  (Matched(k) /\ \E i \in 1..Len(fs) : Present(e, fs[i]))
                    => extracted.data[k] = Str(e[FirstPresent(e, fs)])

\* C32, amended: with an attribute specified the value extracted for a
\* matched element is the first non-empty of that attribute, value and text,
\* and name is not read; with none it is the first non-empty of text, value
\* and name; when none of the three is non-empty it is the last of them as
\* read, which may be undefined. The single-selector and the batch form read
\* alike.
C32_ReadPriority ==
    ExtractReturned =>
        \A k \in DOMAIN extracted.data :
            LET e == MatchedData(k)
                v == extracted.data[k]
                a == Params.attribute
            IN  Matched(k) =>
                  IF HasAttribute(Params)
                  THEN /\ Present(e, a) => v = Str(e[a])
                       /\ ~Present(e, a) /\ Present(e, "value")
                            => v = Str(e.value)
                       /\ ~Present(e, a) /\ ~Present(e, "value")
                            => v = Prop(e, "text")
                  ELSE /\ Present(e, "text") => v = Str(e.text)
                       /\ ~Present(e, "text") /\ Present(e, "value")
                            => v = Str(e.value)
                       /\ ~Present(e, "text") /\ ~Present(e, "value")
                            => v = Prop(e, "name")

\* a batch extraction with no attribute, on an element that has a value and
\* a text: both selectors give the text
C32_Witness ==
    /\ ExtractReturned
    /\ ~HasAttribute(Params)
    /\ "selectors" \in DOMAIN Params
    /\ Matched(S_ab)
    /\ Present(MatchedData(S_ab), "value")
    /\ extracted.data[S_ab] = Str(S_aB)
    /\ extracted.data[S_e] = Str(S_aB)

\* the selector resolved to an element that is in the snapshot
ResolvesToElement(selector) ==
    /\ findElement(selector, snapshot).found
    /\ findElement(selector, snapshot).ref \in OwnKeys(snapshot)

\* the selector is the name of a property every object inherits, and no
\* element of the snapshot has it as its key
InheritedName(selector) ==
    selector \in ObjectPrototypeProps \ OwnKeys(snapshot)

\* extractData returns in this step
ExtractReturns == ExtractReturned' /\ ~ExtractReturned

\* every key extracted is in the result and in the context with the same
\* value; an extraction leaves the keys it does not name as they were, it
\* fails only if the snapshot call fails, and the context changes in no step
\* but an extraction, a navigate step, setContext and clearContext
MergesIntoContext ==
    /\ [](ExtractReturned =>
            \A k \in DOMAIN extracted.data :
                k \in DOMAIN getContext /\ getContext[k] = extracted.data[k])
    /\ [][ /\ ExtractReturns =>
                /\ DOMAIN extracted'.data = ExtractedKeys(Params)
                /\ \A k \in DOMAIN getContext \ DOMAIN extracted'.data :
                     k \in DOMAIN getContext' /\ getContext'[k] = getContext[k]
           /\ (pc = "plain_snapshot" /\ pc' = "catch")
                => err' = Err("snapshot_error")
           /\ getContext' # getContext
                => \/ ExtractReturns
                   \/ pc = "navigate" /\ pc' = "success"
                   \/ pc \in {"loop", "returned"} /\ pc' = pc
           /\ ClearContext => getContext' = EmptyObject
         ]_vars

RemoteCall == {"start", "start_call", "navigate", "snapshot",
               "plain_snapshot", "act", "stop"}

\* the step has the parameters its handler asks for, so the handler calls
\* the session
Valid(step) ==
    /\ ~LacksRequired(step)
    /\ step.type = "select" => Truthy(step.params, "value")
    /\ step.type = "extract" => HasParams(step)

\* the handler of the step calls snapshot, click, type or fillForm
CallsSession(step) ==
    /\ step.type \in {"snapshot", "extract", "click", "submit", "select",
                      "type", "fill_form"}
    /\ Valid(step)

\* C31: snapshot, click, type and fillForm called on a session that is not
\* started fail with the not-started error and no call to the control
\* surface, while navigate on such a session first calls start; start on a
\* session that is started, and close on one that is not, return with no
\* call to the control surface.
C31_MisuseIssuesNoCall ==
    [][ /\ (Dispatched /\ ~isStarted /\ CallsSession(CurrentStep)) =>
             /\ pc' = "catch"
             /\ err' = Err("browser_not_started")
             /\ UNCHANGED brVars
        /\ (Dispatched /\ ~isStarted /\ CurrentStep.type = "navigate"
              /\ Valid(CurrentStep)) => pc' = "start"
        /\ (pc \in AtRest /\ isStarted /\ pc' \in {"start_call", "start_returned"})
             => pc' \notin RemoteCall /\ UNCHANGED brVars
        /\ (pc \in AtRest /\ ~isStarted /\ pc' \in {"stop", "closed"})
             => pc' \notin RemoteCall /\ UNCHANGED brVars
        /\ pc' \in RemoteCall \ {"start", "start_call"} => isStarted'
      ]_vars

\* a navigate step failed for its missing url and started nothing, and the
\* click step after it fails as not started
C31_Witness ==
    /\ ~isStarted
    /\ idx = 2
    /\ steps[1].type = "navigate"
    /\ results[1].error = Err("navigate_missing_url")
    /\ HasTruthyType(CurrentStep)
    /\ CurrentStep.type = "click"
    /\ pc = "catch"
    /\ err = Err("browser_not_started")

(***************************************************************************)
(* Claims about the browser() bridge                                       *)
(***************************************************************************)

\* an injected function was called for the request that is out, and threw
ToolThrew ==
    \/ bStage = "global" /\ browserTool
    \/ bStage = "mock" /\ (browserTool \/ globalTool)

\* every injected function there is was called for the request, and threw
EveryToolThrew == bStage = "mock" /\ (browserTool \/ globalTool)

\* browser() returns to the session in this step
BridgeReturned == Requested /\ pc' # pc

\* the session got the mock response: start succeeds, navigate succeeds and
\* the target is the mock id
MockReturned ==
    IF pc = "start"
    THEN isStarted' /\ pc' = "navigate"
    ELSE pc' = "success" /\ currentTab' = MockTab

\* the mock responses of the five actions have status ok, and no throw of an
\* injected function reaches the session
NeverPropagates ==
    /\ [](\A action \in {"start", "stop", "navigate", "snapshot", "act"} :
            StatusOk(MockResponse(action)))
    /\ [][bStage' \in {"global", "mock"} => pc' = pc /\ err' = err]_vars

====
